---- MODULE Spec2Model ----
(***************************************************************************)
(* Model of the "diff" action of gingerbreadtrev/python-git-diff:          *)
(*   utils.py          glob filtering of path lists and ChangedFileSets    *)
(*   main.py           driver: rename folding, filtering, outputs          *)
(*   pr_events.py      categorisation of the API file list                 *)
(*   github_actions.py workflow-command encoder                            *)
(*                                                                         *)
(* A Python str is a sequence of one-character strings, so that matching,  *)
(* escaping and substring search work on characters as the code does.      *)
(* A few multi-character tokens stand for fixed literals of the code       *)
(* ("::set-output", "name=", "ghadelimiter_").                             *)
(***************************************************************************)
EXTENDS Integers, Sequences, FiniteSets, TLC

VARIABLES
    gpath,      \* SpecGlob: the path handed to filter_paths_with_patterns
    gext,       \* SpecGlob: the extension of the pattern "**/*.<ext>"
    gout,       \* SpecGlob: the list returned
    gdone       \* SpecGlob: whether the call was made

globVars == <<gpath, gext, gout, gdone>>

VARIABLES
    cf0,        \* SpecFiles: the ChangedFileSet as the adapter built it
    cf,         \* SpecFiles: the same object now (Python lists are mutable)
    arg,        \* SpecFiles: the value of the argument when the last call began
    pats,       \* SpecFiles: the pattern list
    result,     \* SpecFiles: what the last call returned
    lastOp,     \* SpecFiles: the function called last
    folds       \* SpecFiles: number of process_renamed_files calls so far

fileVars == <<cf0, cf, arg, pats, result, lastOp, folds>>

VARIABLES
    es,         \* SpecEscape: the string handed to the escaping function
    eout,       \* SpecEscape: the string returned
    eop         \* SpecEscape: the function called

escVars == <<es, eout, eop>>

VARIABLES
    env,        \* SpecCmd: os.environ
    fs,         \* SpecCmd: the files, path -> [exists, data]
    out,        \* SpecCmd: standard output
    call,       \* SpecCmd: the last call: op, name, value, uuid drawn, exception
    prev,       \* SpecCmd: fs, out and env when the last call began
    ncalls,     \* SpecCmd: number of calls made
    trace       \* SpecCmd, SpecChan: the calls that changed a file, in call order

cmdVars == <<env, fs, out, call, prev, ncalls, trace>>

VARIABLES
    pc,         \* SpecMain: where main() stands
    mw,         \* SpecMain: the world of the run: env, fs, out, exc, buf, log
    api,        \* SpecMain: the file list the API returned, once fetched
    main_filters,            \* SpecMain: main's local `filters`
    all_changed_files,       \* SpecMain: main's local of that name
    filtered_changed_files   \* SpecMain: main's local of that name

mainVars == <<pc, mw, api, main_filters, all_changed_files, filtered_changed_files>>

VARIABLES
    sw,         \* SpecSummary: the world of the Summary object: env, fs, out, exc, buf
    sop,        \* SpecSummary: the Summary method called last
    sprev,      \* SpecSummary: the world when the last call began
    shist,      \* SpecSummary: what was added so far, and how much of it was
                \* added before the last write that succeeded
    nsum        \* SpecSummary: number of calls made

sumVars == <<sw, sop, sprev, shist, nsum>>

VARIABLES
    aenv,       \* SpecAdapters: os.environ
    aop,        \* SpecAdapters: the function called
    aargs,      \* SpecAdapters: its arguments and what the tools it ran did
    ares        \* SpecAdapters: what it returned or raised, and what it printed

adVars == <<aenv, aop, aargs, ares>>

VARIABLES
    grw,        \* SpecGroup: the world of the run: out
    grpc,       \* SpecGroup: where the run stands
    grstack,    \* SpecGroup: the names of the group calls that have not returned
    grres,      \* SpecGroup: how the function that ended last ended
    grn         \* SpecGroup: number of calls (info, group) the functions made

grpVars == <<grw, grpc, grstack, grres, grn>>

vars == <<globVars, fileVars, escVars, cmdVars, mainVars, sumVars, adVars, grpVars>>

notGlobVars == <<fileVars, escVars, cmdVars, mainVars, sumVars, adVars, grpVars>>
notFileVars == <<globVars, escVars, cmdVars, mainVars, sumVars, adVars, grpVars>>
notEscVars == <<globVars, fileVars, cmdVars, mainVars, sumVars, adVars, grpVars>>
notCmdVars == <<globVars, fileVars, escVars, mainVars, sumVars, adVars, grpVars>>
notMainVars == <<globVars, fileVars, escVars, cmdVars, sumVars, adVars, grpVars>>
notAdVars == <<globVars, fileVars, escVars, cmdVars, mainVars, sumVars, grpVars>>
notSumVars == <<globVars, fileVars, escVars, cmdVars, mainVars, adVars, grpVars>>
notGrpVars == <<globVars, fileVars, escVars, cmdVars, mainVars, sumVars, adVars>>

(***************************************************************************)
(* Strings                                                                 *)
(***************************************************************************)

\* All sequences over A of length lo..hi.
SeqsOf(A, lo, hi) ==
    UNION {[1..k -> A] : k \in lo..hi}

\* str.endswith
EndsWith(s, suf) ==
    /\ Len(suf) <= Len(s)
    /\ SubSeq(s, Len(s) - Len(suf) + 1, Len(s)) = suf

\* str.split(sep) for a one-character separator: the parts, empty ones included.
RECURSIVE SplitOn(_, _)
SplitOn(s, sep) ==
    IF \A i \in 1..Len(s) : s[i] # sep
    THEN <<s>>
    ELSE LET i == CHOOSE k \in 1..Len(s) :
                      s[k] = sep /\ \A j \in 1..(k - 1) : s[j] # sep
         IN  <<SubSeq(s, 1, i - 1)>> \o SplitOn(SubSeq(s, i + 1, Len(s)), sep)

\* sep.join(parts)
RECURSIVE JoinWith(_, _)
JoinWith(parts, sep) ==
    IF parts = <<>> THEN <<>>
    ELSE IF Len(parts) = 1 THEN parts[1]
    ELSE parts[1] \o sep \o JoinWith(Tail(parts), sep)

(***************************************************************************)
(* Glob Matcher: PurePath(path).full_match(pattern), Python 3.13           *)
(***************************************************************************)

\* PurePath(s)._pattern_str for a relative POSIX path: empty and "." segments
\* are dropped, the rest joined by "/"; the empty path gives "".
PatternStr(s) ==
    JoinWith(SelectSeq(SplitOn(s, "/"), LAMBDA p : p # <<>> /\ p # <<".">>), <<"/">>)

\* fnmatch translation of one pattern segment: "*" is a run of non-separator
\* characters (consecutive stars collapse), "?" one non-separator character,
\* anything else a literal.
RECURSIVE TranslatePart(_)
TranslatePart(part) ==
    IF part = <<>> THEN <<>>
    ELSE IF part[1] = "*"
         THEN IF Len(part) > 1 /\ part[2] = "*"
              THEN TranslatePart(Tail(part))
              ELSE <<"STAR">> \o TranslatePart(Tail(part))
         ELSE IF part[1] = "?"
              THEN <<"ANY1">> \o TranslatePart(Tail(part))
              ELSE <<part[1]>> \o TranslatePart(Tail(part))

\* glob.translate(pat, recursive=True, include_hidden=True) over the segments:
\* a whole-segment "*" is one non-empty segment, a whole-segment "**" is any
\* number of leading segments (or, last, any rest of the path).
RECURSIVE TranslateParts(_)
TranslateParts(parts) ==
    IF parts = <<>> THEN <<>>
    ELSE LET part == parts[1]
             last == Len(parts) = 1
             rest == TranslateParts(Tail(parts))
         IN  IF part = <<"*">>
             THEN (IF last THEN <<"SEG">> ELSE <<"SEG", "/">>) \o rest
             ELSE IF part = <<"*", "*">>
                  THEN IF last THEN <<"ALL">>
                       ELSE IF parts[2] # <<"*", "*">>
                            THEN <<"ANYSEGS">> \o rest
                            ELSE rest
                  ELSE TranslatePart(part)
                       \o (IF last THEN <<>> ELSE <<"/">>) \o rest

Translate(pat) ==
    TranslateParts(SplitOn(pat, "/"))

\* re.match of the translated pattern against the whole string (\Z anchored).
RECURSIVE MatchRe(_, _)
MatchRe(toks, s) ==
    IF toks = <<>> THEN s = <<>>
    ELSE LET t == Head(toks)
             rest == Tail(toks)
             From(k) == SubSeq(s, k + 1, Len(s))
             NoSep(k) == \A i \in 1..k : s[i] # "/"
         IN  CASE t = "STAR" ->
                    \E k \in 0..Len(s) : NoSep(k) /\ MatchRe(rest, From(k))
               [] t = "SEG" ->
                    \E k \in 1..Len(s) : NoSep(k) /\ MatchRe(rest, From(k))
               [] t = "ANY1" ->
                    s # <<>> /\ s[1] # "/" /\ MatchRe(rest, Tail(s))
               [] t = "ANYSEGS" ->
                    \/ MatchRe(rest, s)
                    \/ \E k \in 2..Len(s) : s[k] = "/" /\ MatchRe(rest, From(k))
               [] t = "ALL" ->
                    \E k \in 0..Len(s) : MatchRe(rest, From(k))
               [] OTHER ->
                    s # <<>> /\ s[1] = t /\ MatchRe(rest, Tail(s))

\* A plausible slip: "**/" demands at least one directory.
full_match_needs_dir(path, pattern) ==
    LET toks == Translate(PatternStr(pattern))
        p == PatternStr(path)
    IN  IF toks # <<>> /\ Head(toks) = "ANYSEGS"
        THEN \E k \in 2..Len(p) :
                p[k] = "/" /\ MatchRe(Tail(toks), SubSeq(p, k + 1, Len(p)))
        ELSE MatchRe(toks, p)

full_match(path, pattern) ==
    MatchRe(Translate(PatternStr(pattern)), PatternStr(path))

\* "**/*", the catch-all pattern of the fast path.
CatchAll == <<"*", "*", "/", "*">>

\* A plausible slip: only the first pattern of the list is tried.
filter_loop_first_pattern(file_paths, patterns) ==
    SelectSeq(file_paths, LAMBDA p : full_match(p, patterns[1]))

\* utils.filter_paths_with_patterns
RECURSIVE filter_loop(_, _)
filter_loop(file_paths, patterns) ==
    IF file_paths = <<>> THEN <<>>
    ELSE LET path_str == Head(file_paths)
             matched == \E i \in 1..Len(patterns) : full_match(path_str, patterns[i])
         IN  (IF matched THEN <<path_str>> ELSE <<>>)
             \o filter_loop(Tail(file_paths), patterns)

filter_paths_with_patterns(file_paths, patterns) ==
    IF patterns = <<>> \/ patterns = <<CatchAll>>
    THEN file_paths
    ELSE filter_loop(file_paths, patterns)


(***************************************************************************)
(* ChangedFileSet: categorisation, rename folding, filtering               *)
(***************************************************************************)

\* pr_events.categorize_files: one pass over the API entries.
RECURSIVE categorize_loop(_, _)
categorize_loop(entries, categories) ==
    IF entries = <<>> THEN categories
    ELSE LET file == Head(entries)
             filename == file.filename
             status == file.status
             c1 == IF status = "added"
                   THEN [categories EXCEPT !.added = Append(@, filename)]
                   ELSE IF status = "modified"
                   THEN [categories EXCEPT !.modified = Append(@, filename)]
                   ELSE IF status = "removed"
                   THEN [categories EXCEPT !.removed = Append(@, filename)]
                   ELSE IF status = "renamed" /\ file.previous_filename # <<>>
                   THEN [categories EXCEPT !.renamed =
                            Append(@, [old |-> file.previous_filename, new |-> filename])]
                   ELSE categories
             c2 == [c1 EXCEPT !.all = Append(@, filename)]
         IN  categorize_loop(Tail(entries), c2)

\* A plausible slip: a rename is listed under added as well.
RECURSIVE categorize_renames_added_loop(_, _)
categorize_renames_added_loop(entries, categories) ==
    IF entries = <<>> THEN categories
    ELSE LET file == Head(entries)
             one == categorize_loop(<<file>>, categories)
         IN  categorize_renames_added_loop(Tail(entries),
                 IF file.status = "renamed"
                 THEN [one EXCEPT !.added = Append(@, file.filename)]
                 ELSE one)

categorize_files_renames_added(entries) ==
    categorize_renames_added_loop(entries,
        [added |-> <<>>, modified |-> <<>>, removed |-> <<>>, renamed |-> <<>>,
         all |-> <<>>])

categorize_files(entries) ==
    categorize_loop(entries,
        [added |-> <<>>, modified |-> <<>>, removed |-> <<>>, renamed |-> <<>>,
         all |-> <<>>])

\* A plausible slip: a rename is folded only when its path is not yet listed.
RECURSIVE process_renamed_dedup_loop(_, _)
process_renamed_dedup_loop(changed_files, renamed) ==
    IF renamed = <<>> THEN changed_files
    ELSE LET r == Head(renamed)
             InSeq(x, q) == \E i \in 1..Len(q) : q[i] = x
         IN  process_renamed_dedup_loop(
                 [changed_files EXCEPT
                     !.added = IF InSeq(r.new, @) THEN @ ELSE Append(@, r.new),
                     !.removed = IF InSeq(r.old, @) THEN @ ELSE Append(@, r.old)],
                 Tail(renamed))

process_renamed_files_swapped(changed_files) ==
    [changed_files EXCEPT
        !.added = @ \o [i \in 1..Len(changed_files.renamed) |-> changed_files.renamed[i].old],
        !.removed = @ \o [i \in 1..Len(changed_files.renamed) |-> changed_files.renamed[i].new]]

process_renamed_files_dedup(changed_files) ==
    process_renamed_dedup_loop(changed_files, changed_files.renamed)

\* main.process_renamed_files: the loop over changed_files["renamed"], which
\* mutates the added and removed lists in place.
RECURSIVE process_renamed_loop(_, _)
process_renamed_loop(changed_files, renamed) ==
    IF renamed = <<>> THEN changed_files
    ELSE process_renamed_loop(
             [changed_files EXCEPT !.added = Append(@, Head(renamed).new),
                                   !.removed = Append(@, Head(renamed).old)],
             Tail(renamed))

process_renamed_files(changed_files) ==
    process_renamed_loop(changed_files, changed_files.renamed)

InList(x, q) == \E i \in 1..Len(q) : q[i] = x

\* utils.filter_files_by_patterns, the loop over files["renamed"]: each side of
\* a rename not yet listed is appended when it passes the filter.
RECURSIVE filter_renamed_loop(_, _, _)
filter_renamed_loop(filtered, renamed, patterns) ==
    IF renamed = <<>> THEN filtered
    ELSE LET renamed_item == Head(renamed)
             f1 == IF ~InList(renamed_item.old, filtered.removed)
                   THEN [filtered EXCEPT !.removed =
                            @ \o filter_paths_with_patterns(<<renamed_item.old>>, patterns)]
                   ELSE filtered
             f2 == IF ~InList(renamed_item.new, f1.added)
                   THEN [f1 EXCEPT !.added =
                            @ \o filter_paths_with_patterns(<<renamed_item.new>>, patterns)]
                   ELSE f1
         IN  filter_renamed_loop(f2, Tail(renamed), patterns)

\* utils.filter_files_by_patterns: the dict returned (keys added, modified,
\* removed only).
filter_files_by_patterns(files, patterns) ==
    filter_renamed_loop(
        [added |-> filter_paths_with_patterns(files.added, patterns),
         modified |-> filter_paths_with_patterns(files.modified, patterns),
         removed |-> filter_paths_with_patterns(files.removed, patterns)],
        files.renamed, patterns)

\* On the fast path filter_paths_with_patterns returns its argument, so the
\* lists of the returned dict ARE the lists of the argument and the extends of
\* the rename loop show in the argument too.
filter_files_by_patterns_arg(files, patterns) ==
    IF patterns = <<>> \/ patterns = <<CatchAll>>
    THEN [files EXCEPT !.added = filter_files_by_patterns(files, patterns).added,
                       !.removed = filter_files_by_patterns(files, patterns).removed]
    ELSE files

\* A pathlib.PurePath object in a list of str: tagged, it equals no str.
PurePath(p) == <<"PurePath:">> \o PatternStr(p)

MatchesAny(path, filters) ==
    \E i \in 1..Len(filters) : full_match(path, filters[i])

\* main.filter_changed_files, the loop over changed_files["renamed"]: after
\* the category loop the name `category` is still bound to "all", and the
\* PurePath objects are what is appended.
RECURSIVE filter_changed_renamed(_, _, _)
filter_changed_renamed(filtered_files, renamed, filters) ==
    IF renamed = <<>> THEN filtered_files
    ELSE LET renamed_file == Head(renamed)
             f1 == IF MatchesAny(renamed_file.old, filters)
                   THEN [filtered_files EXCEPT !.all = Append(@, PurePath(renamed_file.old))]
                   ELSE filtered_files
             f2 == IF MatchesAny(renamed_file.new, filters)
                   THEN [f1 EXCEPT !.all = Append(@, PurePath(renamed_file.new))]
                   ELSE f1
         IN  filter_changed_renamed(f2, Tail(renamed), filters)

\* main.filter_changed_files
filter_changed_files(changed_files, filters) ==
    IF filters = <<>> \/ filters = <<CatchAll>>
    THEN changed_files
    ELSE filter_changed_renamed(
             [added |-> SelectSeq(changed_files.added, LAMBDA p : MatchesAny(p, filters)),
              modified |-> SelectSeq(changed_files.modified, LAMBDA p : MatchesAny(p, filters)),
              removed |-> SelectSeq(changed_files.removed, LAMBDA p : MatchesAny(p, filters)),
              renamed |-> <<>>,
              all |-> SelectSeq(changed_files.all, LAMBDA p : MatchesAny(p, filters))],
             changed_files.renamed, filters)

(***************************************************************************)
(* Workflow-Command Encoder (github_actions.GitHubAction)                  *)
(***************************************************************************)

\* os.linesep, "\r" and the fixed prefix of the delimiter, as characters.
LF == "LF"
CR == "CR"
DelimiterTag == "ghadelimiter_"

\* Python values handed to the encoder: a str, a bool, None.
PyStr(s) == [t |-> "str", v |-> s]
PyBool(b) == [t |-> "bool", v |-> b]
PyNone == [t |-> "None"]

\* str.replace(c, rep) for a one-character c.
RECURSIVE Replace(_, _, _)
Replace(s, c, rep) ==
    IF s = <<>> THEN <<>>
    ELSE (IF Head(s) = c THEN rep ELSE <<Head(s)>>) \o Replace(Tail(s), c, rep)

\* `sub in s` for strings.
IsSubstr(sub, s) ==
    \E i \in 0..(Len(s) - Len(sub)) : SubSeq(s, i + 1, i + Len(sub)) = sub

IsSpace(c) == c \in {" ", LF, CR}

\* str.strip()
RECURSIVE LStrip(_)
LStrip(s) ==
    IF s # <<>> /\ IsSpace(Head(s)) THEN LStrip(Tail(s)) ELSE s

RECURSIVE RStrip(_)
RStrip(s) ==
    IF s # <<>> /\ IsSpace(s[Len(s)]) THEN RStrip(SubSeq(s, 1, Len(s) - 1)) ELSE s

Strip(s) == LStrip(RStrip(s))

\* GitHubAction._to_command_value
_to_command_value(input_value) ==
    IF input_value.t = "None" THEN <<>>
    ELSE IF input_value.t = "str" THEN input_value.v
    ELSE IF input_value.v THEN <<"t", "r", "u", "e">> ELSE <<"f", "a", "l", "s", "e">>

\* A plausible slip: "%" is escaped last, so the "%" of %0D and %0A is
\* escaped again.
_escape_data_percent_last(s) ==
    Replace(Replace(Replace(_to_command_value(s), CR, <<"%", "0", "D">>),
                    LF, <<"%", "0", "A">>),
            "%", <<"%", "2", "5">>)

\* GitHubAction._escape_data
_escape_data(s) ==
    Replace(Replace(Replace(_to_command_value(s), "%", <<"%", "2", "5">>),
                    CR, <<"%", "0", "D">>),
            LF, <<"%", "0", "A">>)

\* GitHubAction._escape_property
\* A plausible slip: "%" is not escaped in a property value.
_escape_property_keeps_percent(s) ==
    Replace(Replace(Replace(Replace(_to_command_value(s),
                                    CR, <<"%", "0", "D">>),
                            LF, <<"%", "0", "A">>),
                    ":", <<"%", "3", "A">>),
            ",", <<"%", "2", "C">>)

_escape_property(s) ==
    Replace(Replace(Replace(Replace(Replace(_to_command_value(s),
                                            "%", <<"%", "2", "5">>),
                                    CR, <<"%", "0", "D">>),
                            LF, <<"%", "0", "A">>),
                    ":", <<"%", "3", "A">>),
            ",", <<"%", "2", "C">>)

\* GitHubAction.get_env(name) with the default options: unset reads as "",
\* the value is stripped.  The world w is [env, fs, out, exc]; the name of an
\* environment variable is a str like any other, GITHUB_OUTPUT one character
\* of it.
get_env(w, name) ==
    Strip(w.env[name])

\* print(text): text and a line break on standard output.
PrintLine(w, text) ==
    [w EXCEPT !.out = @ \o text \o <<LF>>]

Raise(w, e) ==
    [w EXCEPT !.exc = e]

\* GitHubAction._issue_command with one property (key, val).
_issue_command(w, command, key, val, message) ==
    LET props == IF _to_command_value(val) # <<>>
                 THEN <<" ", key, "=">> \o _escape_property(val)
                 ELSE <<" ">>
    IN  PrintLine(w, <<"::", command>> \o props \o <<"::">> \o _escape_data(message))

\* os.path.exists(file_path)
Exists(w, file_path) ==
    file_path \in DOMAIN w.fs /\ w.fs[file_path].exists

\* A plausible slip: no os.path.exists check, so open(file_path, "a")
\* creates the file.
_issue_file_command_creating(w, command, message) ==
    LET file_path == get_env(w, <<"GITHUB_" \o command>>)
    IN  IF file_path = <<>> THEN Raise(w, "ValueError")
        ELSE [w EXCEPT !.fs[file_path] =
                 [exists |-> TRUE, data |-> @.data \o _to_command_value(message) \o <<LF>>]]

\* A plausible slip: the file is opened with "w" instead of "a".
_issue_file_command_truncating(w, command, message) ==
    LET file_path == get_env(w, <<"GITHUB_" \o command>>)
    IN  IF file_path = <<>> THEN Raise(w, "ValueError")
        ELSE IF ~Exists(w, file_path) THEN Raise(w, "FileNotFoundError")
        ELSE [w EXCEPT !.fs[file_path].data = _to_command_value(message) \o <<LF>>]

\* GitHubAction._issue_file_command
_issue_file_command(w, command, message) ==
    LET file_path == get_env(w, <<"GITHUB_" \o command>>)
    IN  IF file_path = <<>> THEN Raise(w, "ValueError")
        ELSE IF ~Exists(w, file_path) THEN Raise(w, "FileNotFoundError")
        ELSE [w EXCEPT !.fs[file_path].data = @ \o _to_command_value(message) \o <<LF>>]

\* GitHubAction._issue_command with no properties: ::<command>::<message>
_issue(w, command, message) ==
    PrintLine(w, <<"::", command, "::">> \o _escape_data(message))

\* GitHubAction.start_group and end_group
start_group(w, name) == _issue(w, "group", PyStr(name))
end_group(w) == _issue(w, "endgroup", PyStr(<<>>))

\* A plausible slip: end_group after the call instead of in a finally clause,
\* so that an exception of fn skips it.
group_exit_no_finally(w, outcome) ==
    IF outcome.exc = "none" THEN [w |-> end_group(w), outcome |-> outcome]
    ELSE [w |-> w, outcome |-> outcome]

\* GitHubAction.group, from the end of fn on: the finally clause runs
\* end_group, then the result of fn is returned or its exception goes on to
\* the caller.
group_exit(w, outcome) ==
    [w |-> end_group(w), outcome |-> outcome]

\* A plausible slip: PATH of the process is updated before the command is
\* issued, and the command goes to the file whenever GITHUB_PATH is set.
add_path_always_file(w, input_path) ==
    LET w1 == _issue_file_command(w, "PATH", PyStr(input_path))
    IN  IF w1.exc # "none" THEN w1
        ELSE [w1 EXCEPT !.env[<<"PATH">>] = input_path \o <<":">> \o get_env(w1, <<"PATH">>)]

\* GitHubAction.add_path: the file command when GITHUB_PATH is set, the
\* inline command otherwise; then PATH of the process gets the path in
\* front (os.pathsep is ":").
add_path(w, input_path) ==
    LET w1 == IF get_env(w, <<"GITHUB_PATH">>) # <<>>
              THEN _issue_file_command(w, "PATH", PyStr(input_path))
              ELSE _issue(w, "add-path", PyStr(input_path))
    IN  IF w1.exc # "none" THEN w1
        ELSE [w1 EXCEPT !.env[<<"PATH">>] = input_path \o <<":">> \o get_env(w1, <<"PATH">>)]

\* The delimiter of one call: the tag and the uuid4 drawn in that call.
Delimiter(uuid) == <<DelimiterTag, uuid>>

\* A plausible slip: the value is not checked for the delimiter.
_prepare_unchecked_value(key, value, uuid) ==
    LET delimiter == Delimiter(uuid)
        converted_value == _to_command_value(value)
    IN  IF IsSubstr(delimiter, key)
        THEN [exc |-> "ValueError", msg |-> <<>>]
        ELSE [exc |-> "none",
              msg |-> key \o <<"<<">> \o delimiter \o <<LF>> \o converted_value
                          \o <<LF>> \o delimiter]

\* GitHubAction._prepare_key_value_message; uuid is what uuid.uuid4() returns.
_prepare_key_value_message(key, value, uuid) ==
    LET delimiter == Delimiter(uuid)
        converted_value == _to_command_value(value)
    IN  IF IsSubstr(delimiter, key)
        THEN [exc |-> "ValueError", msg |-> <<>>]
        ELSE IF IsSubstr(delimiter, converted_value)
        THEN [exc |-> "ValueError", msg |-> <<>>]
        ELSE [exc |-> "none",
              msg |-> key \o <<"<<">> \o delimiter \o <<LF>> \o converted_value
                          \o <<LF>> \o delimiter]

\* The shape shared by set_output, save_state and export_variable: the file
\* command when GITHUB_<channel> is set, else the inline command.
KeyValueCommand(w, channel, inline, name, value, uuid, blank_line) ==
    IF get_env(w, <<"GITHUB_" \o channel>>) # <<>>
    THEN LET m == _prepare_key_value_message(name, value, uuid)
         IN  IF m.exc # "none" THEN Raise(w, m.exc)
             ELSE _issue_file_command(w, channel, PyStr(m.msg))
    ELSE _issue_command(IF blank_line THEN [w EXCEPT !.out = @ \o <<LF>>] ELSE w,
                        inline, "name", PyStr(name), PyStr(_to_command_value(value)))

\* A plausible slip: the inline command is printed in file mode too.
set_output_both_channels(w, name, value, uuid) ==
    LET w1 == KeyValueCommand(w, "OUTPUT", "set-output", name, value, uuid, TRUE)
    IN  IF get_env(w, <<"GITHUB_OUTPUT">>) # <<>> /\ w1.exc = "none"
        THEN _issue_command(w1, "set-output", "name", PyStr(name),
                            PyStr(_to_command_value(value)))
        ELSE w1

\* GitHubAction.set_output
set_output(w, name, value, uuid) ==
    KeyValueCommand(w, "OUTPUT", "set-output", name, value, uuid, TRUE)

\* GitHubAction.save_state
save_state(w, name, value, uuid) ==
    KeyValueCommand(w, "STATE", "save-state", name, value, uuid, FALSE)

\* GitHubAction.export_variable: os.environ[name] is set first.
export_variable(w, name, val, uuid) ==
    KeyValueCommand([w EXCEPT !.env = [n \in DOMAIN w.env \cup {name} |->
                                          IF n = name THEN _to_command_value(val)
                                          ELSE w.env[n]]],
                    "ENV", "set-env", name, val, uuid, FALSE)

\* "".join(ss)
RECURSIVE Concat(_)
Concat(ss) ==
    IF ss = <<>> THEN <<>> ELSE Head(ss) \o Concat(Tail(ss))

(***************************************************************************)
(* Summary (github_actions.Summary) and the driver's helpers (main.py)     *)
(***************************************************************************)

\* GitHubAction.info
info(w, message) ==
    PrintLine(w, message)

\* GitHubAction.error with no annotation properties: ::error::<message>
error(w, message) ==
    PrintLine(w, <<"::", "error", "::">> \o _escape_data(PyStr(message)))

\* The variable of an input: INPUT_ and the name in upper case, blanks and
\* hyphens as underscores; the two inputs main reads.
InputKey == [token |-> <<"INPUT_TOKEN">>, filters |-> <<"INPUT_FILTERS">>]

\* GitHubAction.get_input: the variable INPUT_<NAME> read through get_env;
\* a required input that is empty raises ValueError.
get_input(w, name, required) ==
    LET val == get_env(w, InputKey[name])
    IN  IF required /\ w.env[InputKey[name]] = <<>>
        THEN [exc |-> "ValueError", val |-> <<>>]
        ELSE [exc |-> "none", val |-> val]

\* GitHubAction.get_multiline_input: split at line breaks, empty lines
\* dropped, each line stripped.
get_multiline_input(w, name) ==
    LET lines == SelectSeq(SplitOn(get_input(w, name, FALSE).val, LF),
                           LAMBDA x : x # <<>>)
    IN  [i \in 1..Len(lines) |-> Strip(lines[i])]

\* Summary._wrap(tag, content)
_wrap(tag, content) ==
    <<"<" \o tag \o ">">> \o content \o <<"</" \o tag \o ">">>

\* Summary.add_raw
add_raw(w, text) ==
    [w EXCEPT !.buf = @ \o text]

\* Summary.add_eol
add_eol(w) ==
    add_raw(w, <<LF>>)

\* Summary.add_heading(text, level) for a level 1..6
add_heading(w, text, level) ==
    add_eol(add_raw(w, _wrap("h" \o level, text)))

\* Summary.add_list(items), unordered
add_list(w, items) ==
    add_eol(add_raw(w, _wrap("ul", Concat([i \in 1..Len(items) |-> _wrap("li", items[i])]))))

\* Summary.empty_buffer
empty_buffer(w) ==
    [w EXCEPT !.buf = <<>>]

\* A plausible slip: the buffer is not emptied after the write.
write_keeps_buffer(w, overwrite) ==
    LET path_from_env == get_env(w, <<"GITHUB_STEP_SUMMARY">>)
    IN  IF w.env[<<"GITHUB_STEP_SUMMARY">>] = <<>> THEN Raise(w, "ValueError")
        ELSE IF path_from_env \notin DOMAIN w.fs THEN Raise(w, "IOError")
        ELSE [w EXCEPT !.fs[path_from_env] =
                 [exists |-> TRUE,
                  data |-> IF overwrite THEN w.buf ELSE @.data \o w.buf]]

\* Summary.write(options): the path from GITHUB_STEP_SUMMARY (ValueError
\* when it is not set; the path is cached, and the environment of a run does
\* not change), the file opened "a+" (which creates it), then opened "w"
\* with overwrite and "a" without and the buffer written, the buffer emptied.
write(w, overwrite) ==
    LET path_from_env == get_env(w, <<"GITHUB_STEP_SUMMARY">>)
    IN  IF w.env[<<"GITHUB_STEP_SUMMARY">>] = <<>> THEN Raise(w, "ValueError")
        ELSE IF path_from_env \notin DOMAIN w.fs THEN Raise(w, "IOError")
        ELSE empty_buffer([w EXCEPT !.fs[path_from_env] =
                 [exists |-> TRUE,
                  data |-> IF overwrite THEN w.buf ELSE @.data \o w.buf]])

\* Summary.clear
clear(w) ==
    write(empty_buffer(w), TRUE)

\* Summary.write() as create_summary_lists calls it.
summary_write(w) ==
    write(w, FALSE)

\* One section of create_summary_lists: nothing for an empty category.
summary_section(w, title, files) ==
    IF files = <<>> THEN w
    ELSE add_list(add_heading(w, <<title>>, "3"), files)

\* A plausible slip: the exception of summary.write is not caught.
create_summary_lists_uncaught(w, all_files, filtered_files) ==
    LET total_changed == Len(filtered_files.added) + Len(filtered_files.modified)
                         + Len(filtered_files.removed)
        w1 == add_heading(w, <<"Changed Files Summary">>, "2")
        w2 == add_eol(add_eol(add_raw(w1, <<"Total files changed: ", ToString(total_changed)>>)))
        w3 == summary_section(w2, "Added Files", filtered_files.added)
        w4 == summary_section(w3, "Modified Files", filtered_files.modified)
        w5 == summary_section(w4, "Deleted Files", filtered_files.removed)
        w6 == [summary_write(w5) EXCEPT !.writes = @ + 1]
    IN  IF w6.exc = "none"
        THEN info(w6, <<"Summary created successfully">>)
        ELSE w6

\* A plausible slip: the summary is written after every section as well.
create_summary_lists_write_each(w, all_files, filtered_files) ==
    LET total_changed == Len(filtered_files.added) + Len(filtered_files.modified)
                         + Len(filtered_files.removed)
        w1 == add_heading(w, <<"Changed Files Summary">>, "2")
        w2 == add_eol(add_eol(add_raw(w1, <<"Total files changed: ", ToString(total_changed)>>)))
        w3 == [summary_write(summary_section(w2, "Added Files", filtered_files.added))
                  EXCEPT !.writes = @ + 1, !.exc = "none"]
        w4 == [summary_write(summary_section(w3, "Modified Files", filtered_files.modified))
                  EXCEPT !.writes = @ + 1, !.exc = "none"]
        w5 == [summary_write(summary_section(w4, "Deleted Files", filtered_files.removed))
                  EXCEPT !.writes = @ + 1, !.exc = "none"]
        w6 == [summary_write(w5) EXCEPT !.writes = @ + 1]
    IN  IF w6.exc = "none"
        THEN info(w6, <<"Summary created successfully">>)
        ELSE info(info([w6 EXCEPT !.exc = "none"], <<"Could not write summary: ", w6.exc>>),
                  <<"This is expected if running locally or in a testing environment">>)

\* main.create_summary_lists; w.writes counts its calls of summary.write.
create_summary_lists(w, all_files, filtered_files) ==
    LET total_changed == Len(filtered_files.added) + Len(filtered_files.modified)
                         + Len(filtered_files.removed)
        w1 == add_heading(w, <<"Changed Files Summary">>, "2")
        w2 == add_eol(add_eol(add_raw(w1, <<"Total files changed: ", ToString(total_changed)>>)))
        w3 == summary_section(w2, "Added Files", filtered_files.added)
        w4 == summary_section(w3, "Modified Files", filtered_files.modified)
        w5 == summary_section(w4, "Deleted Files", filtered_files.removed)
        w6 == [summary_write(w5) EXCEPT !.writes = @ + 1]
    IN  IF w6.exc = "none"
        THEN info(w6, <<"Summary created successfully">>)
        ELSE info(info([w6 EXCEPT !.exc = "none"], <<"Could not write summary: ", w6.exc>>),
                  <<"This is expected if running locally or in a testing environment">>)

\* json.dumps of a str (the characters json escapes that the model has).
JsonString(x) ==
    <<"\"">> \o Replace(Replace(x, "\"", <<"\\", "\"">>), LF, <<"\\", "n">>) \o <<"\"">>

\* json.dumps of a list of str, with the default separators.
JsonList(l) ==
    <<"[">> \o JoinWith([i \in 1..Len(l) |-> JsonString(l[i])], <<",", " ">>) \o <<"]">>

\* json.dumps(output) of main.set_outputs: keys in insertion order.
JsonDumps(output) ==
    <<"{">> \o JsonString(<<"added">>) \o <<":", " ">> \o JsonList(output.added)
        \o <<",", " ">> \o JsonString(<<"modified">>) \o <<":", " ">> \o JsonList(output.modified)
        \o <<",", " ">> \o JsonString(<<"deleted">>) \o <<":", " ">> \o JsonList(output.deleted)
        \o <<"}">>

\* str(b) of a bool
PyRepr(b) == IF b THEN "True" ELSE "False"

\* str(l) of a list of str without quotes or backslashes
ListRepr(l) ==
    <<"[">> \o JoinWith([i \in 1..Len(l) |-> <<"'">> \o l[i] \o <<"'">>], <<",", " ">>) \o <<"]">>

\* str(has_changes).lower()
BoolText(b) == IF b THEN <<"t", "r", "u", "e">> ELSE <<"f", "a", "l", "s", "e">>

\* A call of action.set_output as main makes it: noted in the log, then made.
LoggedSetOutput(w, name, value, uuid) ==
    set_output([w EXCEPT !.log = Append(@, [fn |-> "set_output", name |-> name,
                                            value |-> value, uuid |-> uuid])],
               name, PyStr(value), uuid)

\* A plausible slip: only the added list decides any-changed.
set_outputs_added_only(w, filtered_files, uuid1, uuid2) ==
    LET output == [added |-> filtered_files.added, modified |-> filtered_files.modified,
                   deleted |-> filtered_files.removed]
        has_changes == Len(filtered_files.added) > 0
        w1 == LoggedSetOutput(info(w, <<"Setting action outputs...">>),
                              <<"any-changed">>, BoolText(has_changes), uuid1)
        w2 == LoggedSetOutput(info(w1, <<"Output 'any-changed' set to: ", PyRepr(has_changes)>>),
                              <<"changed-files">>, JsonDumps(output), uuid2)
    IN  IF w1.exc # "none" THEN w1
        ELSE IF w2.exc # "none" THEN w2
        ELSE info(w2, <<"Files output set successfully">>)

\* main.set_outputs; uuid1 and uuid2 are what the two set_output calls draw.
set_outputs(w, filtered_files, uuid1, uuid2) ==
    LET output == [added |-> filtered_files.added, modified |-> filtered_files.modified,
                   deleted |-> filtered_files.removed]
        has_changes == \/ Len(filtered_files.added) > 0
                       \/ Len(filtered_files.modified) > 0
                       \/ Len(filtered_files.removed) > 0
        w1 == LoggedSetOutput(info(w, <<"Setting action outputs...">>),
                              <<"any-changed">>, BoolText(has_changes), uuid1)
        w2 == LoggedSetOutput(info(w1, <<"Output 'any-changed' set to: ", PyRepr(has_changes)>>),
                              <<"changed-files">>, JsonDumps(output), uuid2)
    IN  IF w1.exc # "none" THEN w1
        ELSE IF w2.exc # "none" THEN w2
        ELSE info(w2, <<"Files output set successfully">>)

(***************************************************************************)
(* Change-source adapters (push_events, pr_events)                         *)
(***************************************************************************)

\* The all-zero revision and the empty tree, each one character of a value.
ZeroSha == <<"0000000000000000000000000000000000000000">>
EmptyTree == <<"4b825dc642cb6eb9a060e54bf8d69288fbee4904">>

\* subprocess.run(..., check=True) either returns with its stdout or raises;
\* what it does is the tool's decision, drawn by the caller of these
\* operators: [exc |-> "none", stdout |-> text] or [exc |-> an exception].
Ran(stdout) == [exc |-> "none", stdout |-> stdout]
Failed(e) == [exc |-> e, stdout |-> <<>>]

\* A plausible slip: a failed git rev-parse HEAD~1 leaves the base empty.
parse_git_shas_no_fallback(e, rev_parse_prev, rev_parse_head) ==
    LET before == e[<<"GITHUB_BEFORE">>]
        after == e[<<"GITHUB_AFTER">>]
        need_base == before = <<>> \/ before = ZeroSha
        base_sha == IF ~need_base THEN before
                    ELSE IF rev_parse_prev.exc = "none" THEN Strip(rev_parse_prev.stdout)
                    ELSE <<>>
        head_sha == IF after # <<>> THEN after ELSE Strip(rev_parse_head.stdout)
        ran == (IF need_base THEN <<"git rev-parse HEAD~1">> ELSE <<>>)
               \o (IF after = <<>> THEN <<"git rev-parse HEAD">> ELSE <<>>)
    IN  IF after = <<>> /\ rev_parse_head.exc # "none"
        THEN [exc |-> "ValueError", base |-> <<>>, head |-> <<>>, ran |-> ran]
        ELSE [exc |-> "none", base |-> base_sha, head |-> head_sha, ran |-> ran]

\* push_events.parse_git_shas_from_env on the environment e; rev_parse_prev
\* and rev_parse_head are what git rev-parse HEAD~1 and git rev-parse HEAD do
\* if they are run (they return, or raise CalledProcessError).  ran lists the
\* git commands that were run.
parse_git_shas_from_env(e, rev_parse_prev, rev_parse_head) ==
    LET before == e[<<"GITHUB_BEFORE">>]
        after == e[<<"GITHUB_AFTER">>]
        need_base == before = <<>> \/ before = ZeroSha
        base_sha == IF ~need_base THEN before
                    ELSE IF rev_parse_prev.exc = "none" THEN Strip(rev_parse_prev.stdout)
                    ELSE EmptyTree
        head_sha == IF after # <<>> THEN after ELSE Strip(rev_parse_head.stdout)
        ran == (IF need_base THEN <<"git rev-parse HEAD~1">> ELSE <<>>)
               \o (IF after = <<>> THEN <<"git rev-parse HEAD">> ELSE <<>>)
    IN  IF after = <<>> /\ rev_parse_head.exc # "none"
        THEN [exc |-> "ValueError", base |-> <<>>, head |-> <<>>, ran |-> ran]
        ELSE [exc |-> "none", base |-> base_sha, head |-> head_sha, ran |-> ran]

\* The tab character.
TAB == "TAB"

\* str.startswith(c) for one character c
StartsWith(x, c) == x # <<>> /\ x[1] = c

\* push_events.get_changed_files_from_git, the loop over stdout.splitlines():
\* blank lines skipped, the line split at tabs, the status letter first;
\* parts[1] or parts[2] of a line that lacks them is an IndexError.
RECURSIVE name_status_loop(_, _)
name_status_loop(lines, changes) ==
    IF lines = <<>> THEN [exc |-> "none", changes |-> changes]
    ELSE LET line == Head(lines)
             parts == SplitOn(line, TAB)
             status == parts[1]
         IN  IF Strip(line) = <<>> THEN name_status_loop(Tail(lines), changes)
             ELSE IF StartsWith(status, "A") \/ StartsWith(status, "M") \/ StartsWith(status, "D")
             THEN IF Len(parts) < 2 THEN [exc |-> "IndexError", changes |-> changes]
                  ELSE name_status_loop(Tail(lines),
                           [changes EXCEPT ![status[1]] = Append(@, parts[2])])
             ELSE IF StartsWith(status, "R")
             THEN IF Len(parts) < 3 THEN [exc |-> "IndexError", changes |-> changes]
                  ELSE name_status_loop(Tail(lines),
                           [changes EXCEPT !.R = Append(@, parts[2] \o <<TAB>> \o parts[3])])
             ELSE name_status_loop(Tail(lines), changes)

\* push_events.get_changed_files_from_git; diff is what
\* git diff --name-status base...head did.  The lines are the parts between
\* line feeds; the empty part after a final line feed is skipped as blank.
get_changed_files_from_git(diff) ==
    IF diff.exc # "none" THEN [exc |-> diff.exc, changes |-> <<>>]
    ELSE name_status_loop(SplitOn(diff.stdout, LF),
                          [A |-> <<>>, M |-> <<>>, D |-> <<>>, R |-> <<>>])

\* The value None, and a value that is not None.
None == [is_none |-> TRUE]
Some(v) == [is_none |-> FALSE, value |-> v]

\* `x or y` and `not x` on an optional str or list.
Falsy(x) == x.is_none \/ x.value = <<>>

\* What a call gave back: the exception that left it ("none" if it
\* returned), the value returned and the lines printed.
Returned(ret, printed) == [exc |-> "none", ret |-> ret, out |-> printed]
Raised(e, printed) == [exc |-> e, ret |-> None, out |-> printed]

\* The rename entries "old<TAB>new" as {"old": ..., "new": ...}; the split
\* gives two parts since neither path holds a tab.
RenamedOf(R) ==
    [i \in 1..Len(R) |-> [old |-> SplitOn(R[i], TAB)[1], new |-> SplitOn(R[i], TAB)[2]]]

\* The three lines printed for a CalledProcessError, and the two for any
\* other exception.
ProcessErrorLines(tool) ==
    <<<<"Error executing ", tool>>, <<"STDOUT: ">>, <<"STDERR: ">>>>
ExceptionLines(e) ==
    <<<<"Error processing changed files: ", e>>, <<"Traceback">>>>

\* A plausible slip: only CalledProcessError and ValueError are caught.
get_push_changed_files_narrow_except(e, base_sha, head_sha, patterns, rev_parse_prev, rev_parse_head, diff) ==
    LET parsed == IF Falsy(base_sha) \/ Falsy(head_sha)
                  THEN parse_git_shas_from_env(e, rev_parse_prev, rev_parse_head)
                  ELSE [exc |-> "none", base |-> <<>>, head |-> <<>>, ran |-> <<>>]
        base == IF Falsy(base_sha) THEN parsed.base ELSE base_sha.value
        head == IF Falsy(head_sha) THEN parsed.head ELSE head_sha.value
        comparing == <<<<"Comparing changes between ">> \o base \o <<" and ">> \o head>>
        git == get_changed_files_from_git(diff)
        file_changes == [added |-> git.changes.A, modified |-> git.changes.M,
                         removed |-> git.changes.D, renamed |-> RenamedOf(git.changes.R)]
    IN  IF parsed.exc = "ValueError"
        THEN Returned(None, <<<<"Error determining commit SHAs: ", "Failed to determine HEAD SHA">>>>)
        ELSE IF git.exc = "CalledProcessError"
        THEN Returned(None, comparing \o ProcessErrorLines("Git command"))
        ELSE IF git.exc # "none"
        THEN Raised(git.exc, comparing)
        ELSE Returned(Some(filter_files_by_patterns(file_changes,
                               IF Falsy(patterns) THEN <<>> ELSE patterns.value)),
                      comparing)

\* push_events.get_push_changed_files(base_sha, head_sha, repo_path,
\* patterns): the arguments are optional; rev_parse_prev, rev_parse_head and
\* diff are what the git commands do if they are run.  repo_path only
\* decides where git runs, which is part of what diff stands for.
get_push_changed_files(e, base_sha, head_sha, patterns, rev_parse_prev, rev_parse_head, diff) ==
    LET parsed == IF Falsy(base_sha) \/ Falsy(head_sha)
                  THEN parse_git_shas_from_env(e, rev_parse_prev, rev_parse_head)
                  ELSE [exc |-> "none", base |-> <<>>, head |-> <<>>, ran |-> <<>>]
        base == IF Falsy(base_sha) THEN parsed.base ELSE base_sha.value
        head == IF Falsy(head_sha) THEN parsed.head ELSE head_sha.value
        comparing == <<<<"Comparing changes between ">> \o base \o <<" and ">> \o head>>
        git == get_changed_files_from_git(diff)
        file_changes == [added |-> git.changes.A, modified |-> git.changes.M,
                         removed |-> git.changes.D, renamed |-> RenamedOf(git.changes.R)]
    IN  IF parsed.exc = "ValueError"
        THEN Returned(None, <<<<"Error determining commit SHAs: ", "Failed to determine HEAD SHA">>>>)
        ELSE IF git.exc = "CalledProcessError"
        THEN Returned(None, comparing \o ProcessErrorLines("Git command"))
        ELSE IF git.exc # "none"
        THEN Returned(None, comparing \o ExceptionLines(git.exc))
        ELSE Returned(Some(filter_files_by_patterns(file_changes,
                               IF Falsy(patterns) THEN <<>> ELSE patterns.value)),
                      comparing)

\* pr_events.get_pr_number_from_event; event says what GITHUB_EVENT_PATH and
\* the file it names hold: "unset", "missing" (FileNotFoundError, caught),
\* "invalid" (JSONDecodeError, caught), "not_object" (JSON that is no object:
\* .get is an AttributeError, not caught here), "no_pull_request" or
\* "pull_request" with its number.
get_pr_number_from_event(event) ==
    IF event.kind = "not_object" THEN [exc |-> "AttributeError", ret |-> None]
    ELSE IF event.kind = "pull_request" THEN [exc |-> "none", ret |-> Some(event.number)]
    ELSE [exc |-> "none", ret |-> None]

\* pr_events.get_changed_files; gh says what `gh api .../files --paginate`
\* did: "files" (a JSON list of file objects), "error_object" (a JSON object:
\* json.loads returns a dict, gh.files are its keys), "JSONDecodeError" (no
\* JSON), "CalledProcessError" or "FileNotFoundError" (gh failed, or is not
\* installed).
get_changed_files(gh) ==
    IF gh.kind \in {"files", "error_object"} THEN [exc |-> "none", files |-> gh.files]
    ELSE [exc |-> gh.kind, files |-> <<>>]

\* pr_events.get_pr_changed_files(token, pr_number); the token only goes
\* into the environment of gh.  Iterating a dict gives its keys, and
\* file["filename"] on a key is a TypeError.
get_pr_changed_files(pr_number, event, gh) ==
    LET from_event == get_pr_number_from_event(event)
        pr_num == IF ~pr_number.is_none /\ pr_number.value # 0 THEN pr_number
                  ELSE from_event.ret
        answer == get_changed_files(gh)
        retrieved == <<<<"Retrieved ", ToString(Len(answer.files)),
                         " changed files from PR #", ToString(pr_num.value)>>>>
    IN  IF (pr_number.is_none \/ pr_number.value = 0) /\ from_event.exc # "none"
        THEN Returned(None, ExceptionLines(from_event.exc))
        ELSE IF pr_num.is_none \/ pr_num.value = 0
        THEN Returned(None, <<<<"Error: Unable to determine PR number">>>>)
        ELSE IF answer.exc = "CalledProcessError"
        THEN Returned(None, ProcessErrorLines("GitHub CLI"))
        ELSE IF answer.exc # "none"
        THEN Returned(None, ExceptionLines(answer.exc))
        ELSE IF gh.kind = "error_object"
        THEN Returned(None, retrieved \o ExceptionLines("TypeError"))
        ELSE Returned(Some(categorize_files(answer.files)), retrieved)

(***************************************************************************)
(* SpecGlob: one path, one extension pattern                               *)
(***************************************************************************)

MaxPathLen == 5

PathAlphabet == {"a", "t", ".", "/"}

\* Paths as git and the API report them: relative, no empty, "." or ".."
\* segment.
IsGitPath(s) ==
    /\ s # <<>>
    /\ \A i \in 1..Len(SplitOn(s, "/")) :
          LET seg == SplitOn(s, "/")[i]
          IN  seg # <<>> /\ seg # <<".">> /\ seg # <<".", ".">>

GitPaths == {s \in SeqsOf(PathAlphabet, 1, MaxPathLen) : IsGitPath(s)}

Exts == {<<"t">>, <<"a", "t">>, <<"t", ".", "a">>}

ExtPattern(ext) == <<"*", "*", "/", "*", ".">> \o ext

GlobIdle ==
    /\ gpath = <<>>
    /\ gext = <<>>
    /\ gout = <<>>
    /\ gdone = FALSE

FilesIdle ==
    /\ cf0 = "none"
    /\ cf = "none"
    /\ arg = "none"
    /\ pats = <<>>
    /\ result = "none"
    /\ lastOp = "none"
    /\ folds = 0

EscIdle ==
    /\ es = <<>>
    /\ eout = <<>>
    /\ eop = "none"

CmdIdle ==
    /\ env = <<>>
    /\ fs = <<>>
    /\ out = <<>>
    /\ call = "none"
    /\ prev = "none"
    /\ ncalls = 0
    /\ trace = <<>>

GrpIdle ==
    /\ grw = "none"
    /\ grpc = "idle"
    /\ grstack = <<>>
    /\ grres = "none"
    /\ grn = 0

AdIdle ==
    /\ aenv = <<>>
    /\ aop = "none"
    /\ aargs = "none"
    /\ ares = "none"

SumIdle ==
    /\ sw = "none"
    /\ sop = "none"
    /\ sprev = "none"
    /\ shist = "none"
    /\ nsum = 0

\* No answer of the API yet.
NoAnswer == [answered |-> FALSE, files |-> <<>>]

\* A local name of main that nothing was assigned to yet.
Unbound == [unbound |-> TRUE]

MainIdle ==
    /\ pc = "idle"
    /\ mw = "none"
    /\ api = NoAnswer
    /\ main_filters = <<>>
    /\ all_changed_files = Unbound
    /\ filtered_changed_files = Unbound

InitGlob ==
    /\ GrpIdle
    /\ FilesIdle
    /\ EscIdle
    /\ CmdIdle
    /\ MainIdle
    /\ SumIdle
    /\ AdIdle
    /\ gpath \in GitPaths
    /\ gext \in Exts
    /\ gout = <<>>
    /\ gdone = FALSE

FilterByExt ==
    /\ ~gdone
    /\ gout' = filter_paths_with_patterns(<<gpath>>, <<ExtPattern(gext)>>)
    /\ gdone' = TRUE
    /\ UNCHANGED <<gpath, gext>>
    /\ UNCHANGED notGlobVars

NextGlob == FilterByExt

SpecGlob == InitGlob /\ [][NextGlob]_vars

\* C6: under the single pattern "**/*.<ext>" a path is kept iff it ends with
\* ".<ext>", whatever its directory depth (depth zero included).
C6_ExtensionIffSuffix ==
    gdone => (gout = <<gpath>>) = EndsWith(gpath, <<".">> \o gext)

C6_KeptOrDropped ==
    gdone => gout \in {<<>>, <<gpath>>}

\* C6 witness: a depth-zero path and a nested path are kept, another dropped.
C6_Witness_DepthZeroKept ==
    gdone /\ gpath = <<"a", ".", "t">> /\ gext = <<"t">> /\ gout = <<gpath>>

(***************************************************************************)
(* SpecFiles: the functions over a ChangedFileSet, applied to every set    *)
(* the pull-request adapter can build from at most MaxFiles API entries    *)
(***************************************************************************)

MaxFiles == 2

MaxFolds == 2

NewPy == <<"n", ".", "p", "y">>
OldPy == <<"d", "/", "o", ".", "p", "y">>
DocMd == <<"c", ".", "m", "d">>

Paths == {NewPy, OldPy, DocMd}

PyPattern == <<"*", "*", "/", "*", ".", "p", "y">>
TopMdPattern == <<"*", ".", "m", "d">>
DirPattern == <<"d", "/", "*", "*">>

PatternLists ==
    {<<>>, <<CatchAll>>, <<PyPattern>>, <<DirPattern>>,
     <<TopMdPattern, PyPattern>>, <<CatchAll, TopMdPattern>>}

\* The entries of the API file list: a rename carries the previous filename,
\* or lacks it.
ApiEntries ==
    [filename : Paths, status : {"added", "modified", "removed"},
     previous_filename : {<<>>}]
    \cup {e \in [filename : Paths, status : {"renamed"},
                 previous_filename : Paths \cup {<<>>}] :
            e.previous_filename # e.filename}

IsTrivial(patterns) == patterns = <<>> \/ patterns = <<CatchAll>>

InitFiles ==
    /\ GrpIdle
    /\ GlobIdle
    /\ EscIdle
    /\ CmdIdle
    /\ MainIdle
    /\ SumIdle
    /\ AdIdle
    /\ \E entries \in SeqsOf(ApiEntries, 0, MaxFiles) :
          cf0 = categorize_files(entries)
    /\ cf = cf0
    /\ arg = "none"
    /\ pats \in PatternLists
    /\ result = "none"
    /\ lastOp = "none"
    /\ folds = 0

\* main.process_renamed_files(changed_files); nothing stops a second call.
ProcessRenamedFiles ==
    /\ lastOp \in {"none", "process_renamed_files"}
    /\ folds < MaxFolds
    /\ arg' = cf
    /\ cf' = process_renamed_files(cf)
    /\ result' = "None"
    /\ lastOp' = "process_renamed_files"
    /\ folds' = folds + 1
    /\ UNCHANGED <<cf0, pats>>
    /\ UNCHANGED notFileVars

\* utils.filter_paths_with_patterns(files["all"], patterns)
FilterPaths ==
    /\ lastOp = "none"
    /\ arg' = cf.all
    /\ result' = filter_paths_with_patterns(cf.all, pats)
    /\ lastOp' = "filter_paths_with_patterns"
    /\ UNCHANGED <<cf0, cf, pats, folds>>
    /\ UNCHANGED notFileVars

\* utils.filter_files_by_patterns(files, patterns)
FilterFilesByPatterns ==
    /\ lastOp = "none"
    /\ arg' = cf
    /\ result' = filter_files_by_patterns(cf, pats)
    /\ cf' = filter_files_by_patterns_arg(cf, pats)
    /\ lastOp' = "filter_files_by_patterns"
    /\ UNCHANGED <<cf0, pats, folds>>
    /\ UNCHANGED notFileVars

\* main.filter_changed_files(changed_files, filters), on the raw set or, as
\* main calls it, on the folded one.
FilterChangedFiles ==
    /\ lastOp \in {"none", "process_renamed_files"}
    /\ arg' = cf
    /\ result' = filter_changed_files(cf, pats)
    /\ lastOp' = "filter_changed_files"
    /\ UNCHANGED <<cf0, cf, pats, folds>>
    /\ UNCHANGED notFileVars

NextFiles ==
    \/ ProcessRenamedFiles
    \/ FilterPaths
    \/ FilterFilesByPatterns
    \/ FilterChangedFiles

SpecFiles == InitFiles /\ [][NextFiles]_vars

FilterOps == {"filter_files_by_patterns", "filter_changed_files"}

Categories == {"added", "modified", "removed", "renamed"}

\* C1 (as claimed): with the pattern list [] or ["**/*"] both filter functions
\* return a set equal to their input in added, modified, removed and renamed
\* (read in the claim's favour: a category the result lacks is not compared).
C1_TrivialFilterIsIdentity ==
    (lastOp \in FilterOps /\ IsTrivial(pats)) =>
        \A c \in Categories \cap DOMAIN result : result[c] = arg[c]

\* C1, the half of it the code keeps: main.filter_changed_files returns its
\* argument itself.
C1_MainFilterIsIdentity ==
    (lastOp = "filter_changed_files" /\ IsTrivial(pats)) => result = arg /\ cf = arg

\* C26: filter_files_by_patterns and filter_paths_with_patterns leave their
\* arguments as they were: after the call the added, modified, removed and
\* renamed sequences of the input set (the list, for
\* filter_paths_with_patterns) are what they were when the call began, for
\* every pattern list, the empty one and ["**/*"] included.
C26_FiltersLeaveArguments ==
    /\ lastOp = "filter_paths_with_patterns" => cf.all = arg
    /\ lastOp = "filter_files_by_patterns" =>
          /\ cf.added = arg.added
          /\ cf.modified = arg.modified
          /\ cf.removed = arg.removed
          /\ cf.renamed = arg.renamed

\* C26, the pattern lists that do filter: the lists returned are new ones
\* and the input stays as it was.
C26_UnchangedWhenFiltering ==
    (lastOp = "filter_files_by_patterns" /\ ~IsTrivial(pats)) => cf = arg

\* The result of main's pipeline on the set the adapter built: one call of
\* process_renamed_files, then filter_changed_files.
PipelineDone == lastOp = "filter_changed_files" /\ folds = 1

\* No path occurs twice among added and the new names of the renames, nor
\* among removed and the old names.
NoRepeats(q) == \A i, j \in 1..Len(q) : q[i] = q[j] => i = j
WithoutRepeats ==
    /\ NoRepeats(cf0.added \o [i \in 1..Len(cf0.renamed) |-> cf0.renamed[i].new])
    /\ NoRepeats(cf0.removed \o [i \in 1..Len(cf0.renamed) |-> cf0.renamed[i].old])

\* C27: for every set and every pattern list, process_renamed_files followed
\* by filter_changed_files gives the added, modified and removed sequences
\* that utils.filter_files_by_patterns gives on the same set, also when a
\* side of a rename is already listed and when a pair occurs twice.
C27_PathsAgree ==
    PipelineDone =>
        LET other == filter_files_by_patterns(cf0, pats)
        IN  /\ result.added = other.added
            /\ result.modified = other.modified
            /\ result.removed = other.removed

\* C27, the sets without repeated paths.
C27_AgreeWithoutRepeats ==
    (PipelineDone /\ WithoutRepeats) =>
        LET other == filter_files_by_patterns(cf0, pats)
        IN  /\ result.added = other.added
            /\ result.modified = other.modified
            /\ result.removed = other.removed

Repeat4(news, k) ==
    IF k = 0 THEN <<>>
    ELSE IF k = 1 THEN news
    ELSE IF k = 2 THEN news \o news
    ELSE IF k = 3 THEN news \o news \o news
    ELSE news \o news \o news \o news

NewsOf(renamed) == [i \in 1..Len(renamed) |-> renamed[i].new]
OldsOf(renamed) == [i \in 1..Len(renamed) |-> renamed[i].old]

\* C4: k calls of process_renamed_files append the new path of every rename
\* pair to added and the old path to removed, in pair order, k times over,
\* without deduplication; modified and renamed stay as they were.
C4_FoldAppendsEveryTime ==
    lastOp = "process_renamed_files" =>
        /\ folds <= 4
        /\ cf.added = cf0.added \o Repeat4(NewsOf(cf0.renamed), folds)
        /\ cf.removed = cf0.removed \o Repeat4(OldsOf(cf0.renamed), folds)
        /\ cf.modified = cf0.modified
        /\ cf.renamed = cf0.renamed
        /\ cf.all = cf0.all

\* C4 witness: the spec's example, folded twice.
C4_Witness_FoldedTwice ==
    /\ lastOp = "process_renamed_files"
    /\ folds = 2
    /\ cf0.added = <<>> /\ cf0.removed = <<>>
    /\ cf0.renamed = <<[old |-> OldPy, new |-> NewPy]>>
    /\ cf.added = <<NewPy, NewPy>>
    /\ cf.removed = <<OldPy, OldPy>>

Matching(paths, patterns) == SelectSeq(paths, LAMBDA p : MatchesAny(p, patterns))

\* C5 (as claimed): with a non-trivial pattern list each of added, modified,
\* removed of the result holds exactly the matching entries of the same input
\* category, and a rename pair with a matching side is still under renamed.
C5_FilterIsPerCategory ==
    (lastOp \in FilterOps /\ ~IsTrivial(pats)) =>
        /\ \A c \in {"added", "modified", "removed"} :
              result[c] = Matching(arg[c], pats)
        /\ \A i \in 1..Len(arg.renamed) :
              (MatchesAny(arg.renamed[i].old, pats) \/ MatchesAny(arg.renamed[i].new, pats))
                  => /\ "renamed" \in DOMAIN result
                     /\ InList(arg.renamed[i], result.renamed)

\* C7 (as claimed): filter_paths_with_patterns returns exactly the
\* sub-sequence of the paths that match at least one pattern.
C7_ExactlyTheMatching ==
    lastOp = "filter_paths_with_patterns" => result = Matching(arg, pats)

\* C7 (amended): so it does for every pattern list but [] and ["**/*"], order
\* and duplicates kept; for [] and ["**/*"] it returns the paths unchanged.
C7_MatchingOrAllWhenTrivial ==
    lastOp = "filter_paths_with_patterns" =>
        IF IsTrivial(pats) THEN result = arg ELSE result = Matching(arg, pats)

\* C7 witness: a duplicated path matching both patterns of the list is kept
\* once per occurrence.
C7_Witness_DuplicateKept ==
    /\ lastOp = "filter_paths_with_patterns"
    /\ pats = <<CatchAll, TopMdPattern>>
    /\ arg = <<DocMd, DocMd>>
    /\ result = <<DocMd, DocMd>>

(***************************************************************************)
(* SpecEscape: the two escaping functions on every short string            *)
(***************************************************************************)

MaxStrLen == 3

EscAlphabet == {"%", CR, LF, ":", ",", "a", "0", "A", "D", "2", "5", "3", "C"}

\* "complex\r\n%:,value" of test_escape_property, shortened to c\r\n%:,v
TestString == <<"c", CR, LF, "%", ":", ",", "v">>

EscInputs == SeqsOf(EscAlphabet, 0, MaxStrLen) \cup {TestString}

InitEscape ==
    /\ GrpIdle
    /\ GlobIdle
    /\ FilesIdle
    /\ CmdIdle
    /\ MainIdle
    /\ SumIdle
    /\ AdIdle
    /\ es \in EscInputs
    /\ eout = <<>>
    /\ eop = "none"

EscapeData ==
    /\ eop = "none"
    /\ eout' = _escape_data(PyStr(es))
    /\ eop' = "_escape_data"
    /\ UNCHANGED es
    /\ UNCHANGED notEscVars

EscapeProperty ==
    /\ eop = "none"
    /\ eout' = _escape_property(PyStr(es))
    /\ eop' = "_escape_property"
    /\ UNCHANGED es
    /\ UNCHANGED notEscVars

NextEscape ==
    \/ EscapeData
    \/ EscapeProperty

SpecEscape == InitEscape /\ [][NextEscape]_vars

\* What each character of the input becomes in a data message.
DataCode(c) ==
    IF c = "%" THEN <<"%", "2", "5">>
    ELSE IF c = CR THEN <<"%", "0", "D">>
    ELSE IF c = LF THEN <<"%", "0", "A">>
    ELSE <<c>>

\* What each character of the input becomes in a property value.
PropertyCode(c) ==
    IF c = ":" THEN <<"%", "3", "A">>
    ELSE IF c = "," THEN <<"%", "2", "C">>
    ELSE DataCode(c)

EachChar(s, Code(_)) ==
    Concat([i \in 1..Len(s) |-> Code(s[i])])

\* C9: _escape_data turns every "%" into %25, every CR into %0D, every LF into
\* %0A and nothing else, the "%" of an escape never being escaped again;
\* _escape_property does the same and turns ":" into %3A and "," into %2C.
C9_EscapesEachCharacterOnce ==
    /\ eop = "_escape_data" => eout = EachChar(es, DataCode)
    /\ eop = "_escape_property" => eout = EachChar(es, PropertyCode)

\* C9 witness: the test's string escaped as a property.
C9_Witness_TestString ==
    /\ eop = "_escape_property"
    /\ es = TestString
    /\ eout = <<"c", "%", "0", "D", "%", "0", "A", "%", "2", "5",
                "%", "3", "A", "%", "2", "C", "v">>

\* The reader's side: every occurrence of the text sub replaced by the
\* character c, from the left.
RECURSIVE Unescape(_, _, _)
Unescape(t, sub, c) ==
    IF Len(t) < Len(sub) THEN t
    ELSE IF SubSeq(t, 1, Len(sub)) = sub
    THEN <<c>> \o Unescape(SubSeq(t, Len(sub) + 1, Len(t)), sub, c)
    ELSE <<Head(t)>> \o Unescape(Tail(t), sub, c)

DecodeData(t) ==
    Unescape(Unescape(Unescape(t, <<"%", "0", "A">>, LF), <<"%", "0", "D">>, CR),
             <<"%", "2", "5">>, "%")

DecodeProperty(t) ==
    Unescape(Unescape(Unescape(Unescape(Unescape(t,
        <<"%", "0", "A">>, LF), <<"%", "0", "D">>, CR), <<"%", "3", "A">>, ":"),
        <<"%", "2", "C">>, ","), <<"%", "2", "5">>, "%")

HasChar(t, chars) == \E i \in 1..Len(t) : t[i] \in chars

\* C29: the text _escape_data returns holds no carriage return and no line
\* feed, and the text _escape_property returns holds no ":" and no ","
\* either; decoding it (%0A, %0D, %3A, %2C first, %25 last) gives back the
\* input, so that two inputs never share an escaped text, also when the
\* input holds the text %0A or %25 itself.
C29_EscapingLossless ==
    /\ eop = "_escape_data" =>
          /\ ~HasChar(eout, {CR, LF})
          /\ DecodeData(eout) = es
    /\ eop = "_escape_property" =>
          /\ ~HasChar(eout, {CR, LF, ":", ","})
          /\ DecodeProperty(eout) = es

\* C29 witness: the input is the text %0A, not a line feed: it is escaped to
\* %250A and decoded to itself.
C29_Witness_LiteralEscape ==
    /\ eop = "_escape_data"
    /\ es = <<"%", "0", "A">>
    /\ eout = <<"%", "2", "5", "0", "A">>
    /\ DecodeData(eout) = es
    /\ DecodeData(eout) # <<LF>>

\* C29 witness: the input %3A as a property value.
C29_Witness_LiteralColonCode ==
    /\ eop = "_escape_property"
    /\ es = <<"%", "3", "A">>
    /\ eout = <<"%", "2", "5", "3", "A">>
    /\ DecodeProperty(eout) = es

(***************************************************************************)
(* SpecCmd: calls of the key/value commands in any order                   *)
(***************************************************************************)

MaxCalls == 2

OutFile == <<"/", "o">>
StateFile == <<"/", "s">>
EnvFile == <<"/", "e">>
MissingFile == <<"/", "x">>

\* The uuid4 values the model lets a call draw.
Uuids == {"u1", "u2"}

\* Names and values: plain ones, ones the inline form must escape, and ones
\* that hold a delimiter some call may draw.
Names == {<<"k", ":">>, <<"k", DelimiterTag, "u1">>}

Values == {PyStr(<<"v", "%", LF>>), PyStr(<<DelimiterTag, "u2", "v">>), PyBool(TRUE)}

InitCmd ==
    /\ GrpIdle
    /\ GlobIdle
    /\ FilesIdle
    /\ EscIdle
    /\ MainIdle
    /\ SumIdle
    /\ AdIdle
    /\ \E o \in {<<>>, <<" ">>, OutFile, MissingFile},
          st \in {<<>>, StateFile}, e \in {<<>>, EnvFile, MissingFile} :
          env = [n \in {<<"GITHUB_OUTPUT">>, <<"GITHUB_STATE">>, <<"GITHUB_ENV">>} |->
                    IF n = <<"GITHUB_OUTPUT">> THEN o
                    ELSE IF n = <<"GITHUB_STATE">> THEN st ELSE e]
    /\ fs = [f \in {OutFile, StateFile, EnvFile, MissingFile} |->
                [exists |-> f # MissingFile, data |-> <<>>]]
    /\ out = <<>>
    /\ call = [op |-> "none"]
    /\ prev = [fs |-> fs, out |-> out, env |-> env]
    /\ ncalls = 0
    /\ trace = <<>>

World == [env |-> env, fs |-> fs, out |-> out, exc |-> "none"]

\* The effect of one call that left the world w1.
Called(op, name, value, uuid, w1, msg) ==
    /\ env' = w1.env
    /\ fs' = w1.fs
    /\ out' = w1.out
    /\ call' = [op |-> op, name |-> name, value |-> value, uuid |-> uuid,
                exc |-> w1.exc, msg |-> msg]
    /\ prev' = [fs |-> fs, out |-> out, env |-> env]
    /\ ncalls' = ncalls + 1
    /\ trace' = IF w1.fs # fs THEN Append(trace, call') ELSE trace
    /\ UNCHANGED notCmdVars

SetOutput ==
    /\ ncalls < MaxCalls
    /\ \E name \in Names, value \in Values, uuid \in Uuids :
          Called("set_output", name, value, uuid,
                 set_output(World, name, value, uuid), <<>>)

SaveState ==
    /\ ncalls < MaxCalls
    /\ \E name \in Names, value \in Values, uuid \in Uuids :
          Called("save_state", name, value, uuid,
                 save_state(World, name, value, uuid), <<>>)

ExportVariable ==
    /\ ncalls < MaxCalls
    /\ \E name \in Names, value \in Values, uuid \in Uuids :
          Called("export_variable", name, value, uuid,
                 export_variable(World, name, value, uuid), <<>>)

\* _prepare_key_value_message called on its own, as the tests do.
PrepareKeyValueMessage ==
    /\ ncalls < MaxCalls
    /\ \E name \in Names, value \in Values, uuid \in Uuids :
          LET m == _prepare_key_value_message(name, value, uuid)
          IN  Called("_prepare_key_value_message", name, value, uuid,
                     Raise(World, m.exc), m.msg)

NextCmd ==
    \/ SetOutput
    \/ SaveState
    \/ ExportVariable
    \/ PrepareKeyValueMessage

SpecCmd == InitCmd /\ [][NextCmd]_vars

\* The key/value block of a call, as it stands in a channel file.
Block(name, text, uuid) ==
    name \o <<"<<", DelimiterTag, uuid, LF>> \o text \o <<LF, DelimiterTag, uuid>>

\* The file a call in file form writes to.
ChannelOf(op) ==
    IF op = "set_output" THEN <<"GITHUB_OUTPUT">>
    ELSE IF op = "save_state" THEN <<"GITHUB_STATE">> ELSE <<"GITHUB_ENV">>

Appended(path, text) ==
    fs = [prev.fs EXCEPT ![path].data = @ \o text]

\* C8: set_output uses one channel.  GITHUB_OUTPUT unset, empty or blank: the
\* inline command ::set-output name=<name>::<value> (name and value escaped)
\* goes to standard output and no file changes.  GITHUB_OUTPUT naming an
\* existing file: nothing is printed, and the call, unless it raised, appended
\* the block <name><<DELIM / <value> / DELIM to that file and to no other.
C8_SetOutputOneChannel ==
    call.op = "set_output" =>
        LET path == Strip(env[<<"GITHUB_OUTPUT">>])
            text == _to_command_value(call.value)
        IN  /\ path = <<>> =>
                /\ call.exc = "none"
                /\ fs = prev.fs
                /\ out = prev.out \o <<LF, "::", "set-output", " ", "name", "=">>
                             \o EachChar(call.name, PropertyCode)
                             \o <<"::">> \o EachChar(text, DataCode) \o <<LF>>
            /\ (path # <<>> /\ prev.fs[path].exists) =>
                /\ out = prev.out
                /\ call.exc = "none" =>
                      Appended(path, Block(call.name, text, call.uuid) \o <<LF>>)
                /\ call.exc # "none" => fs = prev.fs

\* C8 witnesses: the inline form, and the file form.
C8_Witness_Inline ==
    /\ call.op = "set_output"
    /\ env[<<"GITHUB_OUTPUT">>] = <<>>
    /\ call.value = PyBool(TRUE)
    /\ out = <<LF, "::", "set-output", " ", "name", "=", "k", "%", "3", "A", "::",
               "t", "r", "u", "e", LF>>

C8_Witness_File ==
    /\ call.op = "set_output"
    /\ env[<<"GITHUB_OUTPUT">>] = OutFile
    /\ call.exc = "none"
    /\ out = <<>>
    /\ fs[OutFile].data # prev.fs[OutFile].data

Collides(name, value, uuid) ==
    \/ IsSubstr(Delimiter(uuid), name)
    \/ IsSubstr(Delimiter(uuid), _to_command_value(value))

Absent == [unset |-> TRUE]

EntryOf(e, name) == IF name \in DOMAIN e THEN [value |-> e[name]] ELSE Absent

\* C30: export_variable is all-or-nothing.  A call that raised (GITHUB_ENV
\* names a file that does not exist, or the delimiter occurs in the name or
\* the value) left the environment entry of the name as it was before the
\* call and appended nothing to any file; a call that returned left the
\* serialised value in the environment and emitted exactly one entry for the
\* name: the block appended to the env file, or the one set-env command line.
C30_ExportAllOrNothing ==
    call.op = "export_variable" =>
        LET text == _to_command_value(call.value)
            path == Strip(prev.env[<<"GITHUB_ENV">>])
        IN  IF call.exc # "none"
            THEN /\ EntryOf(env, call.name) = EntryOf(prev.env, call.name)
                 /\ fs = prev.fs
            ELSE /\ EntryOf(env, call.name) = [value |-> text]
                 /\ IF path # <<>>
                    THEN /\ Appended(path, Block(call.name, text, call.uuid) \o <<LF>>)
                         /\ out = prev.out
                    ELSE /\ fs = prev.fs
                         /\ out = prev.out \o <<"::", "set-env", " ", "name", "=">>
                                      \o EachChar(call.name, PropertyCode)
                                      \o <<"::">> \o EachChar(text, DataCode) \o <<LF>>

\* What does hold: whether it raised or returned, export_variable left the
\* serialised value in the environment, and a call that raised appended
\* nothing to any file and printed nothing.
C30_EnvironmentSetEitherWay ==
    call.op = "export_variable" =>
        /\ EntryOf(env, call.name) = [value |-> _to_command_value(call.value)]
        /\ call.exc # "none" => fs = prev.fs /\ out = prev.out

\* The two failures of export_variable after which the environment differs
\* from what it was: the env file is missing, and the delimiter collides.
C30_Reached_MissingFile ==
    /\ call.op = "export_variable"
    /\ call.exc = "FileNotFoundError"
    /\ EntryOf(env, call.name) # EntryOf(prev.env, call.name)

C30_Reached_Collision ==
    /\ call.op = "export_variable"
    /\ call.exc = "ValueError"
    /\ EntryOf(env, call.name) # EntryOf(prev.env, call.name)

(***************************************************************************)
(* SpecMain: one run of main(), step by step                               *)
(***************************************************************************)

SummaryFile == <<"/", "m">>

\* A path in a directory that does not exist: no open can create it.
NoDirFile == <<"/", "q", "/", "m">>

\* What INPUT_FILTERS may hold: nothing (main then filters by ["**/*"]), one
\* pattern, two lines, a padded line followed by empty lines.
\* The bound on the number of lines of a name-status diff.
MaxDiff == 2

\* The lines git diff --name-status may print: one per status, one that
\* lacks its path, and a blank one.
LineA == <<"A", TAB>> \o NewPy
LineM == <<"M", TAB>> \o DocMd
LineD == <<"D", TAB>> \o OldPy
LineR == <<"R", "1", "0", "0", TAB>> \o OldPy \o <<TAB>> \o DocMd
LineBad == <<"M">>
LineBlank == <<>>
DiffLines == {LineA, LineM, LineD, LineR, LineBad, LineBlank}

FilterInputs ==
    {<<>>, PyPattern, TopMdPattern \o <<LF>> \o PyPattern,
     <<" ">> \o DirPattern \o <<LF, LF>>}

Events == {<<"pull_request">>, <<"push">>, <<"workflow_dispatch">>}

\* The entries the API may return in a run: every rename between two paths,
\* one rename that lacks the previous filename, and one entry of each other
\* status.
MainEntries ==
    {e \in ApiEntries :
        \/ e.status = "renamed" /\ e.previous_filename # <<>>
        \/ e.status = "renamed" /\ e.filename = DocMd
        \/ e.status = "added" /\ e.filename = NewPy
        \/ e.status = "modified" /\ e.filename = DocMd
        \/ e.status = "removed" /\ e.filename = OldPy}

EnvNames ==
    {<<"INPUT_TOKEN">>, <<"INPUT_FILTERS">>, <<"GITHUB_EVENT_NAME">>,
     <<"GITHUB_OUTPUT">>, <<"GITHUB_STEP_SUMMARY">>}

InitMain ==
    /\ GrpIdle
    /\ GlobIdle
    /\ FilesIdle
    /\ EscIdle
    /\ CmdIdle
    /\ SumIdle
    /\ AdIdle
    /\ pc = "start"
    /\ \E token \in {<<>>, <<"t">>}, f \in FilterInputs, event \in Events,
          o \in {<<>>, OutFile, MissingFile}, summary \in {<<>>, SummaryFile, NoDirFile} :
          mw = [env |-> [n \in EnvNames |->
                            IF n = <<"INPUT_TOKEN">> THEN token
                            ELSE IF n = <<"INPUT_FILTERS">> THEN f
                            ELSE IF n = <<"GITHUB_EVENT_NAME">> THEN event
                            ELSE IF n = <<"GITHUB_OUTPUT">> THEN o ELSE summary],
                fs |-> [f2 \in {OutFile, MissingFile, SummaryFile} |->
                           [exists |-> f2 # MissingFile, data |-> <<>>]],
                out |-> <<>>, exc |-> "none", buf |-> <<>>, log |-> <<>>, writes |-> 0]
    /\ api = NoAnswer
    /\ main_filters = <<>>
    /\ all_changed_files = Unbound
    /\ filtered_changed_files = Unbound

\* main.get_event_type
get_event_type(w) == w.env[<<"GITHUB_EVENT_NAME">>]

\* main, the inputs: the token is required; no filter line means ["**/*"].
MainReadInputs ==
    /\ pc = "start"
    /\ LET token == get_input(mw, "token", TRUE)
           lines == get_multiline_input(mw, "filters")
           w1 == info(mw, <<"GitHub token received">>)
           w2 == info(w1, <<"Using filters: ">> \o ListRepr(IF lines = <<>> THEN <<CatchAll>> ELSE lines))
           w3 == info(w2, <<"Detected event type: ">> \o get_event_type(mw))
       IN  IF token.exc # "none"
           THEN /\ mw' = Raise(mw, token.exc)
                /\ pc' = "crashed"
                /\ UNCHANGED main_filters
           ELSE /\ mw' = w3
                /\ main_filters' = IF lines = <<>> THEN <<CatchAll>> ELSE lines
                /\ pc' = "event"
    /\ UNCHANGED <<api, all_changed_files, filtered_changed_files>>
    /\ UNCHANGED notMainVars

\* main on a pull_request event, the API answering with a file list.
MainFetchPR ==
    /\ pc = "event"
    /\ get_event_type(mw) = <<"pull_request">>
    /\ \E files \in SeqsOf(MainEntries, 0, MaxFiles) :
          /\ api' = [answered |-> TRUE, files |-> files]
          /\ all_changed_files' = categorize_files(files)
          /\ mw' = PrintLine(info(mw, <<"Retrieving changed files from pull request...">>),
                             <<"Retrieved ", ToString(Len(files)), " changed files from PR">>)
    /\ pc' = "fetched"
    /\ UNCHANGED <<main_filters, filtered_changed_files>>
    /\ UNCHANGED notMainVars

\* main on a pull_request event, get_pr_changed_files returning None.
MainFetchPRFails ==
    /\ pc = "event"
    /\ get_event_type(mw) = <<"pull_request">>
    /\ all_changed_files' = None
    /\ mw' = error(PrintLine(info(mw, <<"Retrieving changed files from pull request...">>),
                             <<"Error: Unable to determine PR number">>),
                   <<"Failed to retrieve changed files">>)
    /\ pc' = "returned"
    /\ UNCHANGED <<api, main_filters, filtered_changed_files>>
    /\ UNCHANGED notMainVars

\* main on a push event: main.get_push_changed_files(token), the placeholder
\* defined in main.py: whatever git diff --name-status would report between
\* base and head (api.diff), it runs no git command and returns the empty
\* file set.
MainFetchPush ==
    /\ pc = "event"
    /\ get_event_type(mw) = <<"push">>
    /\ \E lines \in SeqsOf({LineA, LineM, LineD}, 0, MaxDiff) :
          api' = [answered |-> FALSE, files |-> <<>>, diff |-> lines]
    /\ all_changed_files' = categorize_files(<<>>)
    /\ mw' = PrintLine(PrintLine(PrintLine(
                 info(mw, <<"Retrieving changed files from push event...">>),
                 <<"Push event detected - implementation placeholder">>),
                 <<"GITHUB_BEFORE: N/A">>), <<"GITHUB_AFTER: N/A">>)
    /\ pc' = "fetched"
    /\ UNCHANGED <<main_filters, filtered_changed_files>>
    /\ UNCHANGED notMainVars

\* A plausible slip: an event that is neither pull_request nor push is
\* reported and then handled as a push with no changes.
MainUnsupportedEvent_goes_on ==
    /\ pc = "event"
    /\ get_event_type(mw) \notin {<<"pull_request">>, <<"push">>}
    /\ mw' = error(mw, <<"Unsupported event type: ">> \o get_event_type(mw))
    /\ all_changed_files' = categorize_files(<<>>)
    /\ pc' = "fetched"
    /\ UNCHANGED <<api, main_filters, filtered_changed_files>>
    /\ UNCHANGED notMainVars

\* main on any other event: one error annotation, and return.
MainUnsupportedEvent ==
    /\ pc = "event"
    /\ get_event_type(mw) \notin {<<"pull_request">>, <<"push">>}
    /\ mw' = error(mw, <<"Unsupported event type: ">> \o get_event_type(mw))
    /\ pc' = "returned"
    /\ UNCHANGED <<api, main_filters, all_changed_files, filtered_changed_files>>
    /\ UNCHANGED notMainVars

\* main: process_renamed_files(all_changed_files), in place.
MainProcessRenamed ==
    /\ pc = "fetched"
    /\ all_changed_files' = process_renamed_files(all_changed_files)
    /\ pc' = "folded"
    /\ UNCHANGED <<mw, api, main_filters, filtered_changed_files>>
    /\ UNCHANGED notMainVars

\* main: filtered_changed_files = filter_changed_files(all_changed_files, filters)
MainFilter ==
    /\ pc = "folded"
    /\ filtered_changed_files' = filter_changed_files(all_changed_files, main_filters)
    /\ pc' = "filtered"
    /\ UNCHANGED <<mw, api, main_filters, all_changed_files>>
    /\ UNCHANGED notMainVars

\* main: create_summary_lists(action, all_changed_files, filtered_changed_files)
MainSummary ==
    /\ pc = "filtered"
    /\ mw' = create_summary_lists(mw, all_changed_files, filtered_changed_files)
    /\ pc' = "summarised"
    /\ UNCHANGED <<api, main_filters, all_changed_files, filtered_changed_files>>
    /\ UNCHANGED notMainVars

\* main: set_outputs(action, filtered_changed_files); an exception of
\* set_output leaves main.
MainSetOutputs ==
    /\ pc = "summarised"
    /\ \E uuid1 \in Uuids, uuid2 \in Uuids :
          mw' = set_outputs(mw, filtered_changed_files, uuid1, uuid2)
    /\ pc' = IF mw'.exc = "none" THEN "done" ELSE "crashed"
    /\ UNCHANGED <<api, main_filters, all_changed_files, filtered_changed_files>>
    /\ UNCHANGED notMainVars

NextMain ==
    \/ MainReadInputs
    \/ MainFetchPR
    \/ MainFetchPRFails
    \/ MainFetchPush
    \/ MainUnsupportedEvent
    \/ MainProcessRenamed
    \/ MainFilter
    \/ MainSummary
    \/ MainSetOutputs

SpecMain == InitMain /\ [][NextMain]_vars

\* The renamed entries of the API file list that carry both names.
Renames ==
    {i \in 1..Len(api.files) :
        api.files[i].status = "renamed" /\ api.files[i].previous_filename # <<>>}

\* The object the changed-files output serialises.
OutputObject ==
    [added |-> filtered_changed_files.added,
     modified |-> filtered_changed_files.modified,
     deleted |-> filtered_changed_files.removed]

\* {"added": ["n.py"], "modified": [], "deleted": ["d/o.py"]}
RenameJson ==
    <<"{", "\"", "added", "\"", ":", " ", "[", "\"", "n", ".", "p", "y", "\"", "]", ",", " ",
      "\"", "modified", "\"", ":", " ", "[", "]", ",", " ",
      "\"", "deleted", "\"", ":", " ", "[", "\"", "d", "/", "o", ".", "p", "y", "\"", "]", "}">>

\* {"added": [], "modified": [], "deleted": []}
EmptyJson ==
    <<"{", "\"", "added", "\"", ":", " ", "[", "]", ",", " ",
      "\"", "modified", "\"", ":", " ", "[", "]", ",", " ",
      "\"", "deleted", "\"", ":", " ", "[", "]", "}">>

TrueText == <<"t", "r", "u", "e">>
FalseText == <<"f", "a", "l", "s", "e">>

\* C2: a run of main on a pull_request event that reaches its end has
\* emitted, as changed-files, the serialisation of an object that lists the
\* new name of every renamed entry under added iff the new name matches the
\* filter list, and the old name under deleted iff the old name matches it;
\* the single rename d/o.py -> n.py under ["**/*.py"] gives
\* {added: [n.py], modified: [], deleted: [d/o.py]} and any-changed "true".
C2_RenameEndToEnd ==
    (pc = "done" /\ get_event_type(mw) = <<"pull_request">>) =>
        /\ Len(mw.log) = 2
        /\ mw.log[2].name = <<"changed-files">>
        /\ mw.log[2].value = JsonDumps(OutputObject)
        /\ \A i \in Renames :
              /\ InList(api.files[i].filename, OutputObject.added)
                    <=> MatchesAny(api.files[i].filename, main_filters)
              /\ InList(api.files[i].previous_filename, OutputObject.deleted)
                    <=> MatchesAny(api.files[i].previous_filename, main_filters)
        /\ (/\ api.files = <<[filename |-> NewPy, status |-> "renamed", previous_filename |-> OldPy]>>
            /\ main_filters = <<PyPattern>>) =>
              /\ mw.log[2].value = RenameJson
              /\ mw.log[1].name = <<"any-changed">>
              /\ mw.log[1].value = TrueText

\* C2 witness: the run with the one rename d/o.py -> n.py and the filter
\* **/*.py has ended, and the output file holds both outputs.
C2_Witness_OneRename ==
    /\ pc = "done"
    /\ api.files = <<[filename |-> NewPy, status |-> "renamed", previous_filename |-> OldPy]>>
    /\ main_filters = <<PyPattern>>
    /\ mw.env[<<"GITHUB_OUTPUT">>] = OutFile
    /\ IsSubstr(RenameJson, mw.fs[OutFile].data)

\* C2 witness: a run where the new name passes the filter and the old name
\* does not, so that only added lists the rename.
C2_Witness_OnlyNewMatches ==
    /\ pc = "done"
    /\ api.files = <<[filename |-> NewPy, status |-> "renamed", previous_filename |-> DocMd]>>
    /\ main_filters = <<PyPattern>>
    /\ OutputObject = [added |-> <<NewPy>>, modified |-> <<>>, deleted |-> <<>>]

AnyNonEmpty ==
    \/ filtered_changed_files.added # <<>>
    \/ filtered_changed_files.modified # <<>>
    \/ filtered_changed_files.removed # <<>>

\* The text of an output in the channel GITHUB_OUTPUT selects.
Emitted(entry) ==
    IF mw.env[<<"GITHUB_OUTPUT">>] = <<>>
    THEN <<LF, "::", "set-output", " ", "name", "=">>
             \o EachChar(entry.name, PropertyCode) \o <<"::">>
             \o EachChar(entry.value, DataCode) \o <<LF>>
    ELSE Block(entry.name, entry.value, entry.uuid) \o <<LF>>

\* C3: when set_outputs has returned it has made exactly two set_output
\* calls, any-changed and then changed-files; any-changed is "true" iff the
\* filtered added, modified or removed sequence is non-empty and "false"
\* otherwise; changed-files is the JSON object with the keys added, modified
\* and deleted holding the filtered added, modified and removed sequences,
\* all three keys present when every sequence is empty; and the channel
\* holds these two outputs in that order.
C3_TwoOutputs ==
    pc = "done" =>
        /\ Len(mw.log) = 2
        /\ mw.log[1].name = <<"any-changed">>
        /\ mw.log[1].value = IF AnyNonEmpty THEN TrueText ELSE FalseText
        /\ mw.log[2].name = <<"changed-files">>
        /\ mw.log[2].value = JsonDumps(OutputObject)
        /\ ~AnyNonEmpty => mw.log[2].value = EmptyJson
        /\ IF mw.env[<<"GITHUB_OUTPUT">>] = <<>>
           THEN /\ IsSubstr(Emitted(mw.log[1])
                              \o <<"Output 'any-changed' set to: ", PyRepr(AnyNonEmpty), LF>>
                              \o Emitted(mw.log[2]), mw.out)
                /\ mw.fs[OutFile].data = <<>>
           ELSE mw.fs[OutFile].data = Emitted(mw.log[1]) \o Emitted(mw.log[2])

\* C3 witness: a run that ended with only a modified file left after the
\* filter: any-changed is "true" though added is empty.
C3_Witness_ModifiedOnly ==
    /\ pc = "done"
    /\ filtered_changed_files.added = <<>>
    /\ filtered_changed_files.modified # <<>>
    /\ mw.log[1].value = TrueText

\* C3 witness: a run that ended with nothing left after the filter: the
\* object with three empty lists, and "false".
C3_Witness_AllEmpty ==
    /\ pc = "done"
    /\ api.files # <<>>
    /\ mw.log[1].value = FalseText
    /\ mw.log[2].value = EmptyJson

\* The positions of mw.out where an error annotation starts a line.
ErrorAnnotations ==
    {i \in 1..(Len(mw.out) - 2) :
        /\ mw.out[i] = "::" /\ mw.out[i + 1] = "error" /\ mw.out[i + 2] = "::"
        /\ (i = 1 \/ mw.out[i - 1] = LF)}

Supported == get_event_type(mw) \in {<<"pull_request">>, <<"push">>}

\* C18: a run of main whose event is neither pull_request nor push, or whose
\* adapter returned None, returns after the event was read; when it has
\* returned, mw.out holds exactly one error annotation, its last line,
\* "Unsupported event type: <type>" or "Failed to retrieve changed files";
\* no rename was folded, nothing was filtered, the summary buffer and every
\* file are as they were, and set_output was never called.
C18_SoftFailure ==
    /\ (~Supported /\ pc \notin {"start", "event", "crashed"}) => pc = "returned"
    /\ all_changed_files = None => pc = "returned"
    /\ pc = "returned" =>
          /\ Cardinality(ErrorAnnotations) = 1
          /\ EndsWith(mw.out,
                 IF Supported
                 THEN <<"::", "error", "::", "Failed to retrieve changed files", LF>>
                 ELSE <<"::", "error", "::", "Unsupported event type: ">>
                          \o get_event_type(mw) \o <<LF>>)
          /\ all_changed_files = IF Supported THEN None ELSE Unbound
          /\ filtered_changed_files = Unbound
          /\ mw.buf = <<>>
          /\ \A f \in DOMAIN mw.fs : mw.fs[f].data = <<>>
          /\ mw.log = <<>>
          /\ ~ENABLED NextMain

\* C18 witness: the event workflow_dispatch: one annotation, and the run
\* has returned with an output file named and left empty.
C18_Witness_Unsupported ==
    /\ pc = "returned"
    /\ get_event_type(mw) = <<"workflow_dispatch">>
    /\ mw.env[<<"GITHUB_OUTPUT">>] = OutFile
    /\ mw.fs[OutFile].data = <<>>
    /\ EndsWith(mw.out, <<"::", "error", "::", "Unsupported event type: ", "workflow_dispatch", LF>>)

\* C18 witness: a pull_request event whose adapter returned None.
C18_Witness_NoResult ==
    /\ pc = "returned"
    /\ get_event_type(mw) = <<"pull_request">>
    /\ all_changed_files = None
    /\ EndsWith(mw.out, <<"::", "error", "::", "Failed to retrieve changed files", LF>>)

\* The paths a diff reports under a status letter.
Reported(letter) ==
    LET hits == SelectSeq(api.diff, LAMBDA line : line[1] = letter)
    IN  [i \in 1..Len(hits) |-> SubSeq(hits[i], 3, Len(hits[i]))]

ElementsOf(q) == {q[i] : i \in 1..Len(q)}

MatchingOf(paths) == SelectSeq(paths, LAMBDA p : MatchesAny(p, main_filters))

\* C19: a run of main on a push event that reaches its end took its file
\* set from the name-status diff between base and head: every path the diff
\* reports as added, modified or deleted that matches the filters is in the
\* list of that status in changed-files, and any-changed is "true" when the
\* diff reports a matching path.
C19_PushUsesDiff ==
    (pc = "done" /\ get_event_type(mw) = <<"push">>) =>
        /\ \A p \in ElementsOf(MatchingOf(Reported("A"))) : InList(p, OutputObject.added)
        /\ \A p \in ElementsOf(MatchingOf(Reported("M"))) : InList(p, OutputObject.modified)
        /\ \A p \in ElementsOf(MatchingOf(Reported("D"))) : InList(p, OutputObject.deleted)
        /\ MatchingOf(Reported("A") \o Reported("M") \o Reported("D")) # <<>> =>
              mw.log[1].value = TrueText

\* The text of one section, and of the whole summary, as the claim lays
\* them out.
SectionText(title, files) ==
    IF files = <<>> THEN <<>>
    ELSE <<"<h3>", title, "</h3>", LF, "<ul>">>
         \o Concat([i \in 1..Len(files) |-> <<"<li>">> \o files[i] \o <<"</li>">>])
         \o <<"</ul>", LF>>

SummaryText ==
    <<"<h2>", "Changed Files Summary", "</h2>", LF>>
    \o <<"Total files changed: ",
         ToString(Len(filtered_changed_files.added) + Len(filtered_changed_files.modified)
                  + Len(filtered_changed_files.removed)), LF, LF>>
    \o SectionText("Added Files", filtered_changed_files.added)
    \o SectionText("Modified Files", filtered_changed_files.modified)
    \o SectionText("Deleted Files", filtered_changed_files.removed)

C20_NoWriteBefore ==
    pc \in {"start", "event", "fetched", "folded", "filtered", "returned"} =>
        mw.writes = 0 /\ mw.buf = <<>>

SummaryWriteFails == mw.env[<<"GITHUB_STEP_SUMMARY">>] # SummaryFile
SummaryException ==
    IF mw.env[<<"GITHUB_STEP_SUMMARY">>] = <<>> THEN "ValueError" ELSE "IOError"

\* C21: in a run of main whose summary write fails, create_summary_lists
\* returns normally after two info lines (no exception is pending and no
\* file changed), and a run that reaches the end has emitted any-changed
\* and changed-files; such a run ends in an exception only for the token or
\* the output channel.
C21_SummaryFailureNotFatal ==
    SummaryWriteFails =>
        /\ pc = "summarised" =>
              /\ mw.exc = "none"
              /\ mw.writes = 1
              /\ EndsWith(mw.out,
                     <<"Could not write summary: ", SummaryException, LF,
                       "This is expected if running locally or in a testing environment", LF>>)
              /\ \A f \in DOMAIN mw.fs : mw.fs[f].data = <<>>
        /\ pc = "done" =>
              /\ Len(mw.log) = 2
              /\ mw.log[1].name = <<"any-changed">>
              /\ mw.log[2].name = <<"changed-files">>
        /\ pc = "crashed" =>
              \/ mw.env[<<"INPUT_TOKEN">>] = <<>>
              \/ mw.env[<<"GITHUB_OUTPUT">>] = MissingFile

\* C21 witness: the summary variable unset, the run at its end with both
\* outputs in the output file.
C21_Witness_UnsetThenOutputs ==
    /\ pc = "done"
    /\ mw.env[<<"GITHUB_STEP_SUMMARY">>] = <<>>
    /\ mw.env[<<"GITHUB_OUTPUT">>] = OutFile
    /\ IsSubstr(<<"Could not write summary: ", "ValueError", LF>>, mw.out)
    /\ mw.fs[OutFile].data = Emitted(mw.log[1]) \o Emitted(mw.log[2])

\* C21 witness: the summary file cannot be opened, and the run ended.
C21_Witness_Inaccessible ==
    /\ pc = "done"
    /\ mw.env[<<"GITHUB_STEP_SUMMARY">>] = NoDirFile
    /\ IsSubstr(<<"Could not write summary: ", "IOError", LF>>, mw.out)
    /\ Len(mw.log) = 2

(***************************************************************************)
(* SpecChan: calls that write the channel files, one after the other       *)
(***************************************************************************)

PathFile == <<"/", "p">>

\* What a channel file may hold when the step begins.
Before == <<"0", LF>>

\* Paths handed to add_path, and messages handed to _issue_file_command.
InputPaths == {<<"/", "b">>, <<"%", "b">>}

Messages == {PyStr(<<"k", "=", "v">>), PyBool(FALSE)}

Commands == {"OUTPUT", "STATE", "PATH"}

InitChan ==
    /\ GrpIdle
    /\ GlobIdle
    /\ FilesIdle
    /\ EscIdle
    /\ MainIdle
    /\ SumIdle
    /\ AdIdle
    /\ \E o \in {OutFile, MissingFile}, st \in {<<>>, <<" ">>, StateFile}, p \in {<<>>, PathFile} :
          env = [n \in {<<"GITHUB_OUTPUT">>, <<"GITHUB_STATE">>, <<"GITHUB_ENV">>,
                        <<"GITHUB_PATH">>, <<"PATH">>} |->
                    IF n = <<"GITHUB_OUTPUT">> THEN o
                    ELSE IF n = <<"GITHUB_STATE">> THEN st
                    ELSE IF n = <<"GITHUB_ENV">> THEN EnvFile
                    ELSE IF n = <<"GITHUB_PATH">> THEN p ELSE <<"/", "u">>]
    /\ fs = [f \in {OutFile, StateFile, EnvFile, PathFile, MissingFile} |->
                [exists |-> f # MissingFile,
                 data |-> IF f = MissingFile THEN <<>> ELSE Before]]
    /\ out = <<>>
    /\ call = [op |-> "none"]
    /\ prev = [fs |-> fs, out |-> out, env |-> env]
    /\ ncalls = 0
    /\ trace = <<>>

\* _issue_file_command called on its own, as the tests do; the call record
\* keeps the command's variable as its name.
IssueFileCommand ==
    /\ ncalls < MaxCalls
    /\ \E command \in Commands, message \in Messages :
          Called("_issue_file_command", <<"GITHUB_" \o command>>, message, "none",
                 _issue_file_command(World, command, message), <<>>)

AddPath ==
    /\ ncalls < MaxCalls
    /\ \E input_path \in InputPaths :
          Called("add_path", <<"GITHUB_PATH">>, PyStr(input_path), "none",
                 add_path(World, input_path), <<>>)

NextChan ==
    \/ SetOutput
    \/ SaveState
    \/ ExportVariable
    \/ AddPath
    \/ IssueFileCommand

SpecChan == InitChan /\ [][NextChan]_vars

\* C11: _issue_file_command(command, message) raises ValueError when
\* GITHUB_<command> is unset or empty (or blank), FileNotFoundError when it
\* names a path that does not exist, and nothing else; after either error no
\* file was created and no file's content changed.
C11_FileCommandErrors ==
    call.op = "_issue_file_command" =>
        LET file_path == Strip(env[call.name])
        IN  /\ call.exc = "ValueError" <=> file_path = <<>>
            /\ call.exc = "FileNotFoundError" <=>
                  (file_path # <<>> /\ ~prev.fs[file_path].exists)
            /\ call.exc \in {"none", "ValueError", "FileNotFoundError"}
            /\ call.exc # "none" => fs = prev.fs /\ out = prev.out

\* C11 witness: GITHUB_OUTPUT names the missing file; the call raised
\* FileNotFoundError and the file still does not exist.
C11_Witness_MissingFile ==
    /\ call.op = "_issue_file_command"
    /\ call.name = <<"GITHUB_OUTPUT">>
    /\ env[<<"GITHUB_OUTPUT">>] = MissingFile
    /\ call.exc = "FileNotFoundError"
    /\ ~fs[MissingFile].exists

\* C11 witness: GITHUB_PATH is unset; the call raised ValueError.
C11_Witness_Unset ==
    /\ call.op = "_issue_file_command"
    /\ call.name = <<"GITHUB_PATH">>
    /\ env[<<"GITHUB_PATH">>] = <<>>
    /\ call.exc = "ValueError"
    /\ fs = prev.fs

IsPrefix(a, b) ==
    Len(a) <= Len(b) /\ SubSeq(b, 1, Len(a)) = a

\* The environment variable that names the file of a call in file form.
ChannelVar(c) ==
    IF c.op \in {"add_path", "_issue_file_command"} THEN c.name ELSE ChannelOf(c.op)

\* The entry a successful call in file form adds, without its line break.
Entry(c) ==
    IF c.op \in {"add_path", "_issue_file_command"}
    THEN _to_command_value(c.value)
    ELSE Block(c.name, _to_command_value(c.value), c.uuid)

\* The entries of the calls of tr that went to file f, in call order.
RECURSIVE EntriesFor(_, _)
EntriesFor(f, tr) ==
    IF tr = <<>> THEN <<>>
    ELSE (IF Strip(env[ChannelVar(Head(tr))]) = f THEN Entry(Head(tr)) \o <<LF>> ELSE <<>>)
         \o EntriesFor(f, Tail(tr))

\* C12: channel files are append-only.  After every call of set_output,
\* save_state, export_variable, add_path or _issue_file_command no file
\* appeared or disappeared and what each file held before the call is a
\* prefix of what it holds now; a call in file form that did not raise added
\* exactly its one entry and a line break to its own file and left the
\* others alone, a call that raised or went inline changed no file; and each
\* file holds what it held at the start followed by the entries of the calls
\* that went to it, in call order.
C12_ChannelFilesAppendOnly ==
    /\ call.op # "none" =>
          /\ \A f \in DOMAIN fs :
                /\ fs[f].exists = prev.fs[f].exists
                /\ IsPrefix(prev.fs[f].data, fs[f].data)
          /\ IF call.exc = "none" /\ Strip(env[ChannelVar(call)]) # <<>>
             THEN /\ Appended(Strip(env[ChannelVar(call)]), Entry(call) \o <<LF>>)
                  /\ trace # <<>> /\ trace[Len(trace)] = call
             ELSE fs = prev.fs
    /\ \A f \in DOMAIN fs :
          fs[f].data = (IF fs[f].exists THEN Before ELSE <<>>) \o EntriesFor(f, trace)

\* C12 witness: set_output and then _issue_file_command("OUTPUT", ...) both
\* wrote the output file, which holds the block and then the message.
C12_Witness_TwoEntriesInOrder ==
    /\ Len(trace) = 2
    /\ trace[1].op = "set_output"
    /\ trace[2].op = "_issue_file_command"
    /\ trace[2].name = <<"GITHUB_OUTPUT">>
    /\ fs[OutFile].data = Before \o Entry(trace[1]) \o <<LF>> \o Entry(trace[2]) \o <<LF>>

(***************************************************************************)
(* SpecSummary: calls on one Summary object, one after the other           *)
(***************************************************************************)

MaxSummaryOps == 4

\* Texts handed to add_raw.
RawTexts == {<<"a">>, <<"b", LF>>}

InitSummary ==
    /\ GrpIdle
    /\ GlobIdle
    /\ FilesIdle
    /\ EscIdle
    /\ CmdIdle
    /\ MainIdle
    /\ AdIdle
    /\ \E summary \in {<<>>, SummaryFile, MissingFile} :
          sw = [env |-> [n \in {<<"GITHUB_STEP_SUMMARY">>} |-> summary],
                fs |-> [f \in {SummaryFile, MissingFile} |->
                           [exists |-> f # MissingFile,
                            data |-> IF f = MissingFile THEN <<>> ELSE Before]],
                out |-> <<>>, exc |-> "none", buf |-> <<>>]
    /\ sop = "none"
    /\ sprev = sw
    /\ shist = [added |-> <<>>, written |-> 0, overwrote |-> FALSE]
    /\ nsum = 0

\* The effect of one call that left the world w1; an exception is caught by
\* the caller, as create_summary_lists does.
SummaryCalled(op, w1) ==
    /\ nsum < MaxSummaryOps
    /\ sw' = w1
    /\ sop' = op
    /\ sprev' = sw
    /\ nsum' = nsum + 1
    /\ UNCHANGED notSumVars

Handled(w) == [w EXCEPT !.exc = "none"]

SummaryAddRaw ==
    \E text \in RawTexts :
        /\ SummaryCalled("add_raw", add_raw(Handled(sw), text))
        /\ shist' = [shist EXCEPT !.added = @ \o text]

SummaryAddHeading ==
    /\ SummaryCalled("add_heading", add_heading(Handled(sw), <<"t">>, "3"))
    /\ shist' = [shist EXCEPT !.added = @ \o <<"<h3>", "t", "</h3>", LF>>]

SummaryAddList ==
    /\ SummaryCalled("add_list", add_list(Handled(sw), <<NewPy>>))
    /\ shist' = [shist EXCEPT !.added = @ \o <<"<ul>", "<li>">> \o NewPy \o <<"</li>", "</ul>", LF>>]

SummaryWrite ==
    /\ SummaryCalled("write", write(Handled(sw), FALSE))
    /\ shist' = IF sw'.exc = "none" THEN [shist EXCEPT !.written = Len(shist.added)]
                ELSE shist

SummaryWriteOverwrite ==
    /\ SummaryCalled("write_overwrite", write(Handled(sw), TRUE))
    /\ shist' = [shist EXCEPT !.overwrote = TRUE]

SummaryClear ==
    /\ SummaryCalled("clear", clear(Handled(sw)))
    /\ shist' = [shist EXCEPT !.overwrote = TRUE]

NextSummary ==
    \/ SummaryAddRaw
    \/ SummaryAddHeading
    \/ SummaryAddList
    \/ SummaryWrite
    \/ SummaryWriteOverwrite
    \/ SummaryClear

SpecSummary == InitSummary /\ [][NextSummary]_vars

\* The file GITHUB_STEP_SUMMARY names.
SummaryPath == Strip(sw.env[<<"GITHUB_STEP_SUMMARY">>])

\* What a file held when the run began.
InitialData(f) == IF f = SummaryFile THEN Before ELSE <<>>

\* C13: a write() that succeeded appended the buffer to the summary file and
\* left the buffer empty; a write with overwrite that succeeded left the file
\* holding the buffer and the buffer empty; a clear() that succeeded left
\* file and buffer empty; none of them touched another file.  As long as no
\* overwrite or clear was made, the file holds what it held at the start
\* followed by everything added before the last successful write, in the
\* order added, and the buffer holds exactly what was added after it, so that
\* nothing is written twice.
C13_SummaryBufferAndFile ==
    /\ (sop \in {"write", "write_overwrite", "clear"} /\ sw.exc = "none") =>
          /\ sw.buf = <<>>
          /\ sw.fs[SummaryPath].exists
          /\ sw.fs[SummaryPath].data =
                IF sop = "write" THEN sprev.fs[SummaryPath].data \o sprev.buf
                ELSE IF sop = "write_overwrite" THEN sprev.buf
                ELSE <<>>
          /\ \A f \in DOMAIN sw.fs \ {SummaryPath} : sw.fs[f] = sprev.fs[f]
    /\ (sop \in {"add_raw", "add_heading", "add_list"}) =>
          /\ sw.fs = sprev.fs
          /\ IsPrefix(sprev.buf, sw.buf)
    /\ (sop # "none" /\ ~shist.overwrote) =>
          /\ \A f \in DOMAIN sw.fs :
                sw.fs[f].data = InitialData(f) \o
                    (IF f = SummaryPath THEN SubSeq(shist.added, 1, shist.written) ELSE <<>>)
          /\ sw.buf = SubSeq(shist.added, shist.written + 1, Len(shist.added))

\* C13 witness: text was added and written, more text was added and written:
\* the second write has just succeeded on a file the first one had extended.
C13_Witness_SecondWrite ==
    /\ sop = "write"
    /\ sw.exc = "none"
    /\ ~shist.overwrote
    /\ sprev.buf # <<>>
    /\ Len(sprev.fs[SummaryFile].data) > Len(Before)
    /\ sw.fs[SummaryFile].data = Before \o shist.added

\* C13 witness: clear() emptied a file that held text and a buffer that held
\* text.
C13_Witness_Cleared ==
    /\ sop = "clear"
    /\ sw.exc = "none"
    /\ sprev.buf # <<>>
    /\ sprev.fs[SummaryFile].data # <<>>
    /\ sw.fs[SummaryFile].data = <<>>
    /\ sw.buf = <<>>

(***************************************************************************)
(* SpecAdapters: one call of a change-source function                      *)
(***************************************************************************)

\* What git rev-parse does when it is run.
RevParsePrev == {Ran(<<"sha-p", LF>>), Failed("CalledProcessError")}
RevParseHead == {Ran(<<"sha-c", LF>>), Failed("CalledProcessError")}

InitAdapters ==
    /\ GrpIdle
    /\ GlobIdle
    /\ FilesIdle
    /\ EscIdle
    /\ CmdIdle
    /\ MainIdle
    /\ SumIdle
    /\ \E before \in {<<>>, ZeroSha, <<"sha-b">>}, after \in {<<>>, <<"sha-h">>} :
          aenv = [n \in {<<"GITHUB_BEFORE">>, <<"GITHUB_AFTER">>} |->
                     IF n = <<"GITHUB_BEFORE">> THEN before ELSE after]
    /\ aop = "none"
    /\ aargs = [none |-> TRUE]
    /\ ares = [none |-> TRUE]

ParseGitShasFromEnv ==
    /\ aop = "none"
    /\ \E rev_parse_prev \in RevParsePrev, rev_parse_head \in RevParseHead :
          /\ aargs' = [rev_parse_prev |-> rev_parse_prev, rev_parse_head |-> rev_parse_head]
          /\ ares' = parse_git_shas_from_env(aenv, rev_parse_prev, rev_parse_head)
    /\ aop' = "parse_git_shas_from_env"
    /\ UNCHANGED aenv
    /\ UNCHANGED notAdVars

\* stdout of git diff: every line ends with a line feed.
DiffText(lines) == Concat([i \in 1..Len(lines) |-> lines[i] \o <<LF>>])

\* What git diff does when it is run: it prints lines, fails, or git is not
\* installed.
DiffOutcomes ==
    {[exc |-> "none", lines |-> lines] : lines \in SeqsOf(DiffLines, 0, MaxDiff)}
    \cup {[exc |-> x, lines |-> <<>>] : x \in {"CalledProcessError", "FileNotFoundError"}}

ShaArgs == {None, Some(<<"sha-x">>), Some(ZeroSha)}
PatternArgs == {None, Some(<<PyPattern>>), Some(<<TopMdPattern, PyPattern>>)}

GetPushChangedFiles ==
    /\ aop = "none"
    /\ \E base_sha \in ShaArgs, head_sha \in ShaArgs, patterns \in PatternArgs,
          rev_parse_prev \in RevParsePrev, rev_parse_head \in RevParseHead,
          diff \in DiffOutcomes :
          /\ aargs' = [base_sha |-> base_sha, head_sha |-> head_sha, patterns |-> patterns,
                       rev_parse_prev |-> rev_parse_prev, rev_parse_head |-> rev_parse_head,
                       diff |-> diff]
          /\ ares' = get_push_changed_files(aenv, base_sha, head_sha, patterns,
                         rev_parse_prev, rev_parse_head,
                         IF diff.exc = "none" THEN Ran(DiffText(diff.lines))
                         ELSE Failed(diff.exc))
    /\ aop' = "get_push_changed_files"
    /\ UNCHANGED aenv
    /\ UNCHANGED notAdVars

\* get_changed_files_from_git(base_sha, head_sha) alone.
GetChangedFilesFromGit ==
    /\ aop = "none"
    /\ \E diff \in DiffOutcomes :
          /\ aargs' = [diff |-> diff]
          /\ ares' = get_changed_files_from_git(
                         IF diff.exc = "none" THEN Ran(DiffText(diff.lines))
                         ELSE Failed(diff.exc))
    /\ aop' = "get_changed_files_from_git"
    /\ UNCHANGED aenv
    /\ UNCHANGED notAdVars

\* What the event file holds, and what gh api did.
EventOutcomes ==
    {[kind |-> k, number |-> 0] :
        k \in {"unset", "missing", "invalid", "not_object", "no_pull_request"}}
    \cup {[kind |-> "pull_request", number |-> 5]}
\* Entries with the other statuses the files API has: copied and changed.
OtherEntries ==
    {[filename |-> DocMd, status |-> "copied", previous_filename |-> NewPy],
     [filename |-> NewPy, status |-> "changed", previous_filename |-> <<>>]}

ApiOutcomes ==
    {[kind |-> "files", files |-> files] :
        files \in SeqsOf(MainEntries \cup OtherEntries, 0, MaxFiles)}
    \cup {[kind |-> "error_object", files |-> <<[key |-> "message"], [key |-> "status"]>>]}
    \cup {[kind |-> x, files |-> <<>>] :
            x \in {"JSONDecodeError", "CalledProcessError", "FileNotFoundError"}}
PrNumberArgs == {None, Some(0), Some(7)}

GetPrChangedFiles ==
    /\ aop = "none"
    /\ \E pr_number \in PrNumberArgs, event \in EventOutcomes, gh \in ApiOutcomes :
          /\ aargs' = [pr_number |-> pr_number, event |-> event, gh |-> gh]
          /\ ares' = get_pr_changed_files(pr_number, event, gh)
    /\ aop' = "get_pr_changed_files"
    /\ UNCHANGED aenv
    /\ UNCHANGED notAdVars

\* get_pr_changed_files(token=..., patterns=...), the call of
\* test_get_pr_changed_files_success: the function has no parameter named
\* patterns, so the call is a TypeError and the body does not run.
GetPrChangedFilesWithPatterns ==
    /\ aop = "none"
    /\ \E patterns \in PatternArgs \ {None}, event \in EventOutcomes, gh \in ApiOutcomes :
          /\ aargs' = [patterns |-> patterns, event |-> event, gh |-> gh]
          /\ ares' = Raised("TypeError", <<>>)
    /\ aop' = "get_pr_changed_files(patterns=)"
    /\ UNCHANGED aenv
    /\ UNCHANGED notAdVars

NextAdapters ==
    \/ ParseGitShasFromEnv
    \/ GetChangedFilesFromGit
    \/ GetPushChangedFiles
    \/ GetPrChangedFiles
    \/ GetPrChangedFilesWithPatterns

SpecAdapters == InitAdapters /\ [][NextAdapters]_vars

C15_MissingBothRaises ==
    (/\ aop = "parse_git_shas_from_env"
     /\ aenv[<<"GITHUB_BEFORE">>] = <<>>
     /\ aenv[<<"GITHUB_AFTER">>] = <<>>) => ares.exc = "ValueError"

\* A printed line that reports an error.
ErrorLeads ==
    {"Error: Unable to determine PR number", "Error executing ",
     "Error processing changed files: ", "Error determining commit SHAs: "}
Diagnostic(printed) == \E i \in 1..Len(printed) : printed[i][1] \in ErrorLeads

\* The failures of the two adapters, read off the inputs of the call.
PrNumberResolved ==
    \/ ~aargs.pr_number.is_none /\ aargs.pr_number.value # 0
    \/ aargs.event.kind = "pull_request"
PrFails == ~PrNumberResolved \/ aargs.gh.kind # "files"
ShaResolutionFails ==
    /\ aargs.base_sha.is_none \/ aargs.head_sha.is_none
    /\ aenv[<<"GITHUB_AFTER">>] = <<>>
    /\ aargs.rev_parse_head.exc # "none"
PushFails ==
    \/ ShaResolutionFails
    \/ aargs.diff.exc # "none"
    \/ \E i \in 1..Len(aargs.diff.lines) : aargs.diff.lines[i] = LineBad

C16_Witness_NoPrNumber ==
    /\ aop = "get_pr_changed_files"
    /\ aargs.pr_number = None
    /\ aargs.event.kind = "no_pull_request"
    /\ aargs.gh.kind = "files"
    /\ ares = Returned(None, <<<<"Error: Unable to determine PR number">>>>)

\* The rename pairs of which a side matches one of the patterns.
MatchingPairs(renamed, patterns) ==
    SelectSeq(renamed, LAMBDA r : \/ filter_paths_with_patterns(<<r.old>>, patterns) # <<>>
                                  \/ filter_paths_with_patterns(<<r.new>>, patterns) # <<>>)

\* The categorisation of the lines of a diff, before any filter.
RawOfDiff(lines) ==
    LET changes == name_status_loop(lines, [A |-> <<>>, M |-> <<>>, D |-> <<>>, R |-> <<>>]).changes
    IN  [added |-> changes.A, modified |-> changes.M, removed |-> changes.D,
         renamed |-> RenamedOf(changes.R)]

\* The restriction of a categorised set to the paths matching the patterns.
Restricted(raw, patterns, got) ==
    /\ got.added = filter_paths_with_patterns(raw.added, patterns)
    /\ got.modified = filter_paths_with_patterns(raw.modified, patterns)
    /\ got.removed = filter_paths_with_patterns(raw.removed, patterns)
    /\ "renamed" \in DOMAIN got
    /\ got.renamed = MatchingPairs(raw.renamed, patterns)

\* C17: both adapters take a pattern list: get_pr_changed_files(token,
\* patterns=P) and get_push_changed_files(patterns=P), when the retrieval
\* succeeds, return the categorised set restricted to the paths matching P,
\* the matching rename pairs under renamed; get_push_changed_files without
\* patterns returns the categorisation as it was built.
C17_AdaptersFilter ==
    /\ (/\ aop = "get_pr_changed_files(patterns=)"
        /\ aargs.event.kind = "pull_request"
        /\ aargs.gh.kind = "files") =>
          /\ ares.exc = "none"
          /\ ~ares.ret.is_none
          /\ Restricted(categorize_files(aargs.gh.files), aargs.patterns.value, ares.ret.value)
    /\ (aop = "get_push_changed_files" /\ ~PushFails) =>
          /\ ~ares.ret.is_none
          /\ IF aargs.patterns.is_none
             THEN ares.ret.value = RawOfDiff(aargs.diff.lines)
             ELSE Restricted(RawOfDiff(aargs.diff.lines), aargs.patterns.value, ares.ret.value)

\* C17, the pull-request half alone: the call with patterns returns a set.
C17_PrAcceptsPatterns ==
    (/\ aop = "get_pr_changed_files(patterns=)"
     /\ aargs.event.kind = "pull_request"
     /\ aargs.gh.kind = "files") => ares.exc = "none"

\* C17, the push half alone: without patterns the categorisation is returned
\* as it was built, renames included.
C17_PushRawWithoutPatterns ==
    (aop = "get_push_changed_files" /\ ~PushFails /\ aargs.patterns.is_none) =>
        ares.ret.value = RawOfDiff(aargs.diff.lines)

\* The base of the range git diff was run on: the one named in the line
\* printed just before the command is run.
DiffWasRun == ares.out # <<>> /\ ares.out[1][1] = "Comparing changes between "
DiffBase == <<ares.out[1][2]>>

BaseGiven ==
    IF ~Falsy(aargs.base_sha) THEN aargs.base_sha.value ELSE aenv[<<"GITHUB_BEFORE">>]

\* C23: get_push_changed_files never runs git diff with the all-zero
\* revision as base: when the base it is given, as base_sha or else as
\* GITHUB_BEFORE, is the all-zero revision, the diff runs on the output of
\* git rev-parse HEAD~1 or, if that fails, on the empty tree.
C23_NeverDiffFromZero ==
    (aop = "get_push_changed_files" /\ DiffWasRun) =>
        /\ DiffBase # <<"0000000000000000000000000000000000000000">>
        /\ BaseGiven = <<"0000000000000000000000000000000000000000">> =>
              DiffBase = IF aargs.rev_parse_prev.exc = "none" THEN <<"sha-p">>
                         ELSE <<"4b825dc642cb6eb9a060e54bf8d69288fbee4904">>

\* C23, the environment alone: an all-zero GITHUB_BEFORE, no base_sha given.
C23_EnvZeroReplaced ==
    (/\ aop = "get_push_changed_files"
     /\ DiffWasRun
     /\ Falsy(aargs.base_sha)
     /\ aenv[<<"GITHUB_BEFORE">>] = ZeroSha) =>
        DiffBase = IF aargs.rev_parse_prev.exc = "none" THEN <<"sha-p">> ELSE EmptyTree

\* A call of get_pr_changed_files that returned the categorised set.
Categorised ==
    /\ aop = "get_pr_changed_files"
    /\ aargs.gh.kind = "files"
    /\ ~ares.ret.is_none

\* The filenames of the entries of a status, in the order of the list.
FilenamesOf(files, status) ==
    LET hits == SelectSeq(files, LAMBDA f : f.status = status)
    IN  [i \in 1..Len(hits) |-> hits[i].filename]

\* The pairs of the renamed entries that carry a previous filename.
PairsOf(files) ==
    LET hits == SelectSeq(files, LAMBDA f : f.status = "renamed" /\ f.previous_filename # <<>>)
    IN  [i \in 1..Len(hits) |-> [old |-> hits[i].previous_filename, new |-> hits[i].filename]]

C28_NoFileLost ==
    Categorised =>
        \A i \in 1..Len(aargs.gh.files) :
            LET name == aargs.gh.files[i].filename
                got == ares.ret.value
            IN  \/ InList(name, got.added)
                \/ InList(name, got.modified)
                \/ InList(name, got.removed)
                \/ \E k \in 1..Len(got.renamed) : got.renamed[k].new = name

\* C28, the four statuses of the categories alone, renames carrying their
\* previous filename.
C28_NoFileLostOfKnownStatus ==
    Categorised =>
        \A i \in 1..Len(aargs.gh.files) :
            LET f == aargs.gh.files[i]
                got == ares.ret.value
            IN  (\/ f.status \in {"added", "modified", "removed"}
                 \/ f.status = "renamed" /\ f.previous_filename # <<>>) =>
                    \/ InList(f.filename, got.added)
                    \/ InList(f.filename, got.modified)
                    \/ InList(f.filename, got.removed)
                    \/ \E k \in 1..Len(got.renamed) : got.renamed[k].new = f.filename

\* The paths of the lines of a status letter, in the order of the output,
\* and the number of rename lines.
PathsOfLetter(lines, letter) ==
    LET hits == SelectSeq(lines, LAMBDA l : l # <<>> /\ l[1] = letter /\ Len(l) > 2)
    IN  [i \in 1..Len(hits) |-> SubSeq(hits[i], 3, Len(hits[i]))]
RenameLines(lines) == SelectSeq(lines, LAMBDA l : l # <<>> /\ l[1] = "R")

\* C25, the reduction of the output alone: the paths of the A, M and D lines
\* in their lists in the order of the output, one "old<TAB>new" record for
\* each R line whatever its score, nothing for a blank line, four empty
\* lists for an empty output.
C25_LinesReduced ==
    (aop = "get_changed_files_from_git" /\ ares.exc = "none") =>
        LET lines == aargs.diff.lines
        IN  /\ ares.changes.A = PathsOfLetter(lines, "A")
            /\ ares.changes.M = PathsOfLetter(lines, "M")
            /\ ares.changes.D = PathsOfLetter(lines, "D")
            /\ ares.changes.R = [i \in 1..Len(RenameLines(lines)) |-> OldPy \o <<"TAB">> \o DocMd]
            /\ (\A i \in 1..Len(lines) : lines[i] = <<>>) =>
                  ares.changes = [A |-> <<>>, M |-> <<>>, D |-> <<>>, R |-> <<>>]

\* C25: get_changed_files_from_git reduces the name-status output line by
\* line as stated, and the set get_push_changed_files returns has, in its
\* renamed category, exactly one {old, new} pair for every rename record.
C25_DiffReduction ==
    /\ C25_LinesReduced
    /\ (aop = "get_push_changed_files" /\ ~PushFails /\ Falsy(aargs.patterns)) =>
          /\ ~ares.ret.is_none
          /\ "renamed" \in DOMAIN ares.ret.value
          /\ ares.ret.value.renamed =
                [i \in 1..Len(RenameLines(aargs.diff.lines)) |-> [old |-> OldPy, new |-> DocMd]]

(***************************************************************************)
(* SpecGroup: runs of GitHubAction.group(name, fn), where fn prints,       *)
(* calls group itself, returns or raises                                   *)
(***************************************************************************)

\* The bounds on the nesting of group calls and on the calls the functions
\* make.
MaxDepth == 2
MaxFnCalls == 3

GroupNames == {<<"G">>, <<"a", "%">>}
FnLines == {<<"m">>, <<"i", "n", "f", "o">>}
FnResults == {"result", "other"}
FnExceptions == {"ValueError"}

InitGroup ==
    /\ GlobIdle
    /\ FilesIdle
    /\ EscIdle
    /\ CmdIdle
    /\ MainIdle
    /\ SumIdle
    /\ AdIdle
    /\ grw = [out |-> <<>>]
    /\ grpc = "idle"
    /\ grstack = <<>>
    /\ grres = [exc |-> "none", value |-> "none"]
    /\ grn = 0

\* group(name, fn) is called, by the program or by the fn of an open group:
\* start_group(name), then fn starts.
GroupCall ==
    /\ grpc \in {"idle", "running"}
    /\ Len(grstack) < MaxDepth
    /\ grpc = "running" => grn < MaxFnCalls
    /\ \E name \in GroupNames :
          /\ grw' = start_group(grw, name)
          /\ grstack' = Append(grstack, name)
    /\ grpc' = "running"
    /\ grn' = IF grpc = "running" THEN grn + 1 ELSE grn
    /\ UNCHANGED grres
    /\ UNCHANGED notGrpVars

\* fn calls action.info.
FnInfo ==
    /\ grpc = "running"
    /\ grn < MaxFnCalls
    /\ \E message \in FnLines : grw' = info(grw, message)
    /\ grn' = grn + 1
    /\ UNCHANGED <<grpc, grstack, grres>>
    /\ UNCHANGED notGrpVars

\* fn returns a value.
FnReturns ==
    /\ grpc = "running"
    /\ \E r \in FnResults : grres' = [exc |-> "none", value |-> r]
    /\ grpc' = "finally"
    /\ UNCHANGED <<grw, grstack, grn>>
    /\ UNCHANGED notGrpVars

\* fn raises.
FnRaises ==
    /\ grpc = "running"
    /\ \E e \in FnExceptions : grres' = [exc |-> e, value |-> "none"]
    /\ grpc' = "finally"
    /\ UNCHANGED <<grw, grstack, grn>>
    /\ UNCHANGED notGrpVars

\* The innermost group call ends.  Its caller is the program, or the fn of
\* the enclosing group: that fn goes on after a return, and an exception
\* ends it too.
GroupExit ==
    /\ grpc = "finally"
    /\ LET x == group_exit(grw, grres)
       IN  /\ grw' = x.w
           /\ grres' = x.outcome
    /\ grstack' = SubSeq(grstack, 1, Len(grstack) - 1)
    /\ grpc' = IF Len(grstack) = 1 THEN "done"
               ELSE IF grres.exc = "none" THEN "running" ELSE "finally"
    /\ UNCHANGED grn
    /\ UNCHANGED notGrpVars

NextGroup ==
    \/ GroupCall
    \/ FnInfo
    \/ FnReturns
    \/ FnRaises
    \/ GroupExit

SpecGroup == InitGroup /\ [][NextGroup]_vars

\* The lines of grw.out, and the number of groups open after the first k.
GroupOutLines ==
    LET parts == SplitOn(grw.out, LF)
    IN  SubSeq(parts, 1, Len(parts) - 1)
IsGroupLine(l) == Len(l) >= 3 /\ l[1] = "::" /\ l[2] = "group" /\ l[3] = "::"
IsEndGroupLine(l) == l = <<"::", "endgroup", "::">>
RECURSIVE OpenAfter(_)
OpenAfter(k) ==
    IF k = 0 THEN 0
    ELSE OpenAfter(k - 1)
         + (IF IsGroupLine(GroupOutLines[k]) THEN 1
            ELSE IF IsEndGroupLine(GroupOutLines[k]) THEN -1 ELSE 0)

GroupBalanced ==
    /\ \A k \in 0..Len(GroupOutLines) : OpenAfter(k) >= 0
    /\ OpenAfter(Len(GroupOutLines)) = Len(grstack)
    /\ \A k \in 1..Len(GroupOutLines) :
          (~IsGroupLine(GroupOutLines[k]) /\ ~IsEndGroupLine(GroupOutLines[k])) =>
              OpenAfter(k - 1) >= 1
    /\ grpc = "done" =>
          /\ OpenAfter(Len(GroupOutLines)) = 0
          /\ IsGroupLine(GroupOutLines[1])
          /\ IsEndGroupLine(GroupOutLines[Len(GroupOutLines)])

\* C22: group(name, fn) brackets fn.  The call prints ::group::<name> (the
\* name escaped as command data) before fn runs; every line fn prints lies
\* inside an open group; when fn has ended, by a return or by an exception,
\* exactly one ::endgroup:: is printed and the outcome of fn, its result or
\* its exception, goes to the caller unchanged; the groups open in the
\* output are at all times the calls that have not ended, and none is open
\* when the run has ended.
C22_GroupBrackets ==
    /\ []GroupBalanced
    /\ [][/\ grpc = "finally" =>
                /\ grw'.out = grw.out \o <<"::", "endgroup", "::", LF>>
                /\ grres' = grres
          /\ Len(grstack') > Len(grstack) =>
                grw'.out = grw.out \o <<"::", "group", "::">>
                              \o (IF grstack'[Len(grstack')] = <<"G">> THEN <<"G">>
                                  ELSE <<"a", "%", "2", "5">>) \o <<LF>>]_vars

\* C22 witness: fn printed a line and raised: the exception reached the
\* caller after the endgroup.
C22_Witness_RaisedInsideGroup ==
    /\ grpc = "done"
    /\ grres.exc = "ValueError"
    /\ grw.out = <<"::", "group", "::", "G", LF, "m", LF, "::", "endgroup", "::", LF>>

\* C22 witness: a group inside a group, both closed, the result returned.
C22_Witness_Nested ==
    /\ grpc = "done"
    /\ grres = [exc |-> "none", value |-> "result"]
    /\ grw.out = <<"::", "group", "::", "G", LF, "::", "group", "::", "a", "%", "2", "5", LF,
                   "m", LF, "::", "endgroup", "::", LF, "::", "endgroup", "::", LF>>

====
